---- MODULE Spec2Model ----
(***************************************************************************)
(* Finance dashboard: the transaction ledger and its account balances      *)
(* (routes/transactions.ts), the Redis cache in front of it                *)
(* (services/redisService.ts), the AI insight flow                         *)
(* (services/aiService.ts, routes/ai.ts), the dashboard statistics and     *)
(* category breakdown (routes/dashboard.ts), and the other writers of the  *)
(* accounts table: POST /api/accounts, the first OAuth login               *)
(* (config/oauth.ts) and generateSampleData.                               *)
(*                                                                         *)
(* Every route handler is split at its awaits: one action per database,    *)
(* cache or external call, so that concurrently running handlers           *)
(* interleave exactly where the Node event loop lets them.  Amounts and    *)
(* balances are whole currency units inside the DECIMAL(10,2) columns.     *)
(***************************************************************************)
EXTENDS Integers, Sequences, FiniteSets, TLC

\* ------------------------------------------------------------------------
\* Bounds of the model
\* ------------------------------------------------------------------------
\* number of requests started in one behaviour
MaxOps == 2
\* number of elements of a JSON array answered by the text-generation service
MaxElems == 2
\* number of insight-flow requests started in one behaviour
MaxAiOps == 2
\* number of tokens of a response text of the text-generation service
MaxTextLen == 5

\* ------------------------------------------------------------------------
\* The database as seeded: two users, their accounts
\* ------------------------------------------------------------------------
Users == {"u1", "u2"}
\* the user a first OAuth login creates
NewUser == "u3"
\* the accounts as seeded
SeededAccounts == {"a1", "a2", "a3"}
\* the account POST /api/accounts creates for a user: one per user
NewAccountOf == [u \in Users |-> IF u = "u1" THEN "a4" ELSE "a5"]
\* the default accounts account.createMany gives the user of a first OAuth
\* login: Primary Checking and Savings Account
DefaultAccounts == {"a6", "a7"}
\* the ids of the rows the accounts table holds or comes to hold; the rows it
\* holds are DOMAIN balance
Accounts == SeededAccounts \cup {NewAccountOf[u] : u \in Users}
              \cup DefaultAccounts
\* an account id that references no row
NoSuchAccount == "ax"
AccountIds == SeededAccounts \cup {NoSuchAccount}
AccountOwner == [a \in Accounts |->
                   CASE a \in {"a3", "a5"} -> "u2"
                     [] a \in DefaultAccounts -> NewUser
                     [] OTHER -> "u1"]
\* the type of each account: the seeded and the default accounts of a user
\* are a checking and a savings account, POST /api/accounts is sent with
\* type CHECKING by u1 and SAVINGS by u2
AccountType == [a \in Accounts |->
                  IF a \in {"a2", "a5", "a7"} THEN "SAVINGS" ELSE "CHECKING"]
\* the name of each account: the seed names the accounts of the first user
\* Primary Checking and Emergency Savings and the checking account of the
\* second Everyday Checking, the OAuth callback names the default accounts
\* Primary Checking and Savings Account, and the name of an account of
\* POST /api/accounts is the one the client sends, here New Account
AccountName == [a \in Accounts |->
                  CASE a = "a1" -> "Primary Checking"
                    [] a = "a2" -> "Emergency Savings"
                    [] a = "a3" -> "Everyday Checking"
                    [] a = "a6" -> "Primary Checking"
                    [] a = "a7" -> "Savings Account"
                    [] OTHER -> "New Account"]
\* the names as ORDER BY name ASC lists them
AccountNamesInOrder ==
  <<"Emergency Savings", "Everyday Checking", "New Account",
    "Primary Checking", "Savings Account">>
\* the position of the name of each account in that order
AccountNameRank == [a \in Accounts |->
                      CHOOSE i \in 1..Len(AccountNamesInOrder) :
                        AccountNamesInOrder[i] = AccountName[a]]
\* largest value of a DECIMAL(10,2) column, in whole units
MaxDecimal == 99999999
OpeningBalance == [a \in SeededAccounts |->
                     CASE a = "a1" -> 130
                       [] a = "a2" -> 50
                       [] OTHER    -> MaxDecimal - 10]
TxnIds == {"t1", "t2", "t3"}
\* the ids the requests of the ledger specifications create and name
RequestIds == {"t1", "t2"}
Types == {"INCOME", "EXPENSE", "TRANSFER"}
\* the enum of transactionSchema.category
Categories == {"FOOD_DINING", "TRANSPORTATION", "SHOPPING", "ENTERTAINMENT",
               "BILLS_UTILITIES", "HEALTHCARE", "TRAVEL", "EDUCATION",
               "BUSINESS", "PERSONAL_CARE", "GIFTS_DONATIONS", "INVESTMENTS",
               "SALARY", "FREELANCE", "BUSINESS_INCOME", "RENTAL_INCOME",
               "DIVIDEND_INCOME", "OTHER_INCOME", "OTHER_EXPENSE"}
\* a category and a type outside the enums
BadCategory == "ACCOUNT_TRANSFER"
BadType == "REFUND"
\* dates are day numbers; the requests run on day Now
Now == 200
\* new Date(now.getFullYear(), now.getMonth() - 3, 1)
ThreeMonthsAgo == 100
\* new Date(now.getFullYear(), now.getMonth(), 1)
StartOfCurrentMonth == 190
\* now - 30 days
Last30Days == Now - 30
\* a date before ThreeMonthsAgo, one inside the last 30 days but before this
\* month, and one of this month
OldDate == 50
LastMonthDate == 180
RecentDate == 195
Amounts == {-20, 30}
Reqs == {"r1", "r2"}
CacheKeys == {"dashboard", "ai-insights", "transactions"}
\* the order in which invalidateUserCache deletes the keys
InvalidationOrder == <<"dashboard", "ai-insights", "transactions">>

Absent == "absent"
NoTxn == [userId |-> "-", accountId |-> "-", amount |-> 0, type |-> "-",
          category |-> "-", date |-> 0]

Abs(x) == IF x < 0 THEN -x ELSE x
Min(a, b) == IF a < b THEN a ELSE b
Max(a, b) == IF a > b THEN a ELSE b

\* the effect of a transaction on its account's balance
BalanceChange(type, amount) == IF type = "INCOME" THEN amount ELSE -Abs(amount)

\* the increment that takes a transaction's effect back
RevertChange(type, amount) == IF type = "INCOME" THEN -amount ELSE Abs(amount)

\* the ledger as seeded: one expense of 30 of user u1 on account a1
SeededTxns == [t \in TxnIds |->
                 IF t = "t1"
                 THEN [userId |-> "u1", accountId |-> "a1", amount |-> 30,
                       type |-> "EXPENSE", category |-> "FOOD_DINING",
                       date |-> RecentDate]
                 ELSE NoTxn]

\* the budgets table: limit and spent are DECIMAL(10,2) columns without a
\* CHECK constraint
BudgetIds == {"b1", "b2"}
NoBudget == [userId |-> "-", limit |-> 0, spent |-> 0, isActive |-> FALSE,
             startDate |-> 0, endDate |-> 0]
\* the budgets as seeded: one budget of user u1 for a month that is over
SeededBudgets == [b \in BudgetIds |->
                    IF b = "b1"
                    THEN [userId |-> "u1", limit |-> 400, spent |-> 219,
                          isActive |-> TRUE, startDate |-> 10, endDate |-> 40]
                    ELSE NoBudget]

\* a JavaScript number: a fraction num/den with den > 0, NaN or Infinity
JsNum(n, d) == [kind |-> "finite", num |-> n, den |-> d]
JsNaN == [kind |-> "NaN", num |-> 0, den |-> 1]
JsInfinity == [kind |-> "Infinity", num |-> 0, den |-> 1]

RECURSIVE SumEffects(_, _, _)
\* the sum of the effects on account a of the rows of ledger with ids in S
SumEffects(ledger, a, S) ==
  IF S = {} THEN 0
  ELSE LET t == CHOOSE x \in S : TRUE
       IN (IF ledger[t] # NoTxn /\ ledger[t].accountId = a
           THEN BalanceChange(ledger[t].type, ledger[t].amount) ELSE 0)
          + SumEffects(ledger, a, S \ {t})

VARIABLES balance, txns, usedIds, cache, req, ops, apiKey, insights, ai, aiOps,
          clock, budgets, isActive, dash

vars == <<balance, txns, usedIds, cache, req, ops, apiKey, insights, ai, aiOps,
          clock, budgets, isActive, dash>>

ledgerVars == <<balance, txns, usedIds, cache, req, ops>>
aiVars == <<apiKey, insights, ai, aiOps, clock>>
dashVars == <<budgets, isActive, dash>>

\* clock is the millisecond Date.now() gave at its last reading, counted in
\* the milliseconds that can be told apart; isActive is the column
\* accounts.isActive, which the queries of the statistics filter on and no
\* route writes

\* a request on a connection, or a call of generateSampleData: the fields of
\* its body, the row it read (existing), the increments its open database
\* transaction has made (pend) and the rows these locked (touched), the keys
\* invalidateUserCache has still to delete, and for generateSampleData the
\* savings account, the transactions still to insert (rows) and, in pend,
\* the sums of the generated amounts
IdleReq == [pc |-> "idle", kind |-> "-", user |-> "-", id |-> "-",
            amount |-> <<>>, type |-> Absent, accountId |-> Absent,
            category |-> Absent, date |-> <<>>,
            existing |-> NoTxn, pend |-> [a \in Accounts |-> 0],
            touched |-> {}, status |-> 0,
            keys |-> <<>>, savings |-> Absent, rows |-> <<>>]

\* the requests of the insight routes that can be under way at one time
AiReqs == {"g1", "g2"}

IdleAi == [pc |-> "idle", kind |-> "-", user |-> "-", result |-> <<>>,
           status |-> 0, gen |-> FALSE, text |-> <<>>]

\* the statistics GET /api/dashboard/stats computes from the accounts, the
\* transactions and the budgets
NoStats == [totalBalance |-> 0, accountsCount |-> 0,
            monthlyIncome |-> 0, monthlyExpenses |-> 0, monthlyNet |-> 0,
            transactionsLast30Days |-> 0,
            currentMonthIncome |-> 0, currentMonthExpenses |-> 0,
            transactionsThisMonth |-> 0,
            budgetUtilization |-> JsNum(0, 1)]

\* the query string of GET /api/transactions: page and limit are a number or
\* are not there, sortDir is the characters of the parameter and empty
\* when it is not there, sortKey and the type filter are a word or are not
\* there
NoQuery == [page |-> <<>>, limit |-> <<>>, sortKey |-> Absent,
            sortDir |-> <<>>, type |-> Absent]

\* a request to a route of routes/dashboard.ts or to GET /api/transactions,
\* or a call of a cache method of RedisService; previous is the answer the
\* client got to its list request before this one, key and outcome are the
\* key of the cache method and what the method gave back to its caller,
\* fault says that the catch of the method ran
IdleDash == [pc |-> "idle", kind |-> "-", user |-> "-", startDate |-> 0,
             endDate |-> 0, categories |-> <<>>, totalAmount |-> 0,
             stats |-> NoStats, status |-> 0,
             query |-> NoQuery, items |-> <<>>, total |-> 0,
             totalPages |-> 0, previous |-> <<>>,
             key |-> "-", outcome |-> "-", fault |-> FALSE]

Init ==
  /\ balance = [a \in SeededAccounts |->
                  OpeningBalance[a] + SumEffects(SeededTxns, a, TxnIds)]
  /\ txns = SeededTxns
  /\ usedIds = {t \in TxnIds : SeededTxns[t] # NoTxn}
  /\ cache = [u \in Users |-> {}]
  /\ req = [r \in Reqs |-> IdleReq]
  /\ ops = 0
  /\ apiKey = TRUE
  /\ insights = [u \in Users |-> <<>>]
  /\ ai = [g \in AiReqs |-> IdleAi]
  /\ aiOps = 0
  /\ clock = 1
  /\ budgets = SeededBudgets
  /\ isActive = [a \in Accounts |-> TRUE]
  /\ dash = IdleDash

\* ------------------------------------------------------------------------
\* Helpers of the database model
\* ------------------------------------------------------------------------
\* program positions inside prisma.$transaction(async (tx) => ...)
TxPcs == {"u_tx", "u_apply", "u_write", "d_revert", "d_delete"}

\* a row written inside an open database transaction stays locked until the
\* transaction commits or rolls back
LockedByOther(r, a) ==
  \E o \in Reqs \ {r} : req[o].pc \in TxPcs /\ a \in req[o].touched

\* a DECIMAL(10,2) column rejects a value outside its range
Overflows(v) == Abs(v) > MaxDecimal

\* findFirst({ where: { id, userId } }) on transactions
FindTransaction(id, userId) ==
  IF txns[id] # NoTxn /\ txns[id].userId = userId THEN txns[id] ELSE NoTxn

\* findFirst({ where: { id, userId } }) on accounts
AccountFound(accountId, userId) ==
  accountId \in DOMAIN balance /\ AccountOwner[accountId] = userId

\* the handler has answered: what stays is the request line and the status
Finish(q, code) ==
  [IdleReq EXCEPT !.pc = "done", !.kind = q.kind, !.user = q.user,
                  !.id = q.id, !.accountId = q.accountId, !.status = code]

\* the ledger writes of the handler are done: what follows needs the user only
Written(q) ==
  [IdleReq EXCEPT !.pc = "inval", !.kind = q.kind, !.user = q.user,
                  !.id = q.id, !.accountId = q.accountId,
                  !.keys = InvalidationOrder]

\* ------------------------------------------------------------------------
\* POST /api/transactions
\* ------------------------------------------------------------------------
\* transactionSchema.parse: amount is any number, category and type are
\* members of their enums
SchemaAccepts(amount, type, category) ==
  type \in Types /\ category \in Categories

\* updateSchema = transactionSchema.partial(): as SchemaAccepts for the fields
\* the body has
UpdateSchemaAccepts(amount, type, category) ==
  /\ type # Absent => type \in Types
  /\ category # Absent => category \in Categories

\* the handler up to prisma.transaction.create: the body is parsed, then
\* account.findFirst is answered (served) or rejects, which the catch of the
\* handler answers with 500
CreateBegin(r, ids, u, accountId, amount, type, category, date) ==
  /\ req[r].pc = "idle"
  /\ ops < MaxOps
  /\ ops' = ops + 1
  /\ \E served \in BOOLEAN :
     LET q == [IdleReq EXCEPT !.kind = "create", !.user = u,
                              !.amount = <<amount>>, !.type = type,
                              !.accountId = accountId,
                              !.category = category, !.date = <<date>>]
     IN IF ~SchemaAccepts(amount, type, category)
        THEN /\ req' = [req EXCEPT ![r] = Finish(q, 400)]
             /\ UNCHANGED usedIds
        ELSE IF ~served
        THEN /\ req' = [req EXCEPT ![r] = Finish(q, 500)]
             /\ UNCHANGED usedIds
        ELSE IF ~AccountFound(accountId, u)
        THEN /\ req' = [req EXCEPT ![r] = Finish(q, 404)]
             /\ UNCHANGED usedIds
        ELSE /\ ids \ usedIds # {}
             /\ LET id == CHOOSE t \in ids \ usedIds : TRUE
                IN /\ req' = [req EXCEPT ![r] = [q EXCEPT !.pc = "c_insert",
                                                          !.id = id]]
                   /\ usedIds' = usedIds \cup {id}
  /\ UNCHANGED <<balance, txns, cache, aiVars, dashVars>>

\* prisma.transaction.create
CreateInsert(r) ==
  /\ req[r].pc = "c_insert"
  /\ txns' = [txns EXCEPT ![req[r].id] =
                [userId |-> req[r].user, accountId |-> req[r].accountId,
                 amount |-> req[r].amount[1], type |-> req[r].type,
                 category |-> req[r].category, date |-> req[r].date[1]]]
  /\ req' = [req EXCEPT ![r].pc = "c_incr"]
  /\ UNCHANGED <<balance, usedIds, cache, ops, aiVars, dashVars>>

\* prisma.transaction.create throws
CreateInsertFail(r) ==
  /\ req[r].pc = "c_insert"
  /\ req' = [req EXCEPT ![r] = Finish(req[r], 500)]
  /\ UNCHANGED <<balance, txns, usedIds, cache, ops, aiVars, dashVars>>

\* prisma.account.update({ balance: { increment: balanceChange } })
CreateIncrement(r) ==
  /\ req[r].pc = "c_incr"
  /\ ~LockedByOther(r, req[r].accountId)
  /\ LET a == req[r].accountId
         v == balance[a] + BalanceChange(req[r].type, req[r].amount[1])
     IN IF Overflows(v)
        THEN /\ req' = [req EXCEPT ![r] = Finish(req[r], 500)]
             /\ UNCHANGED balance
        ELSE /\ balance' = [balance EXCEPT ![a] = v]
             /\ req' = [req EXCEPT ![r] = Written(req[r])]
  /\ UNCHANGED <<txns, usedIds, cache, ops, aiVars, dashVars>>

\* prisma.account.update throws for a reason other than the column range
CreateIncrementFail(r) ==
  /\ req[r].pc = "c_incr"
  /\ req' = [req EXCEPT ![r] = Finish(req[r], 500)]
  /\ UNCHANGED <<balance, txns, usedIds, cache, ops, aiVars, dashVars>>

\* ------------------------------------------------------------------------
\* PUT /api/transactions/:id
\* ------------------------------------------------------------------------
AmountChanged(q) == q.amount # <<>> /\ q.amount[1] # q.existing.amount
TypeChanged(q) == q.type # Absent /\ q.type # q.existing.type
AccountChanged(q) == q.accountId # Absent /\ q.accountId # q.existing.accountId
BalanceAffected(q) == AmountChanged(q) \/ TypeChanged(q) \/ AccountChanged(q)

NewAccountId(q) == IF q.accountId # Absent THEN q.accountId
                   ELSE q.existing.accountId
NewAmount(q) == IF q.amount # <<>> THEN q.amount[1] ELSE q.existing.amount
NewType(q) == IF q.type # Absent THEN q.type ELSE q.existing.type

\* the row after tx.transaction.update({ data: { ...validatedData, date } }):
\* the fields of the request body replace those of the stored row; the date
\* is written always, and a body without one writes the date of the row read
\* by findFirst before the database transaction began
UpdatedRow(row, q) ==
  [userId |-> row.userId,
   accountId |-> IF q.accountId # Absent THEN q.accountId ELSE row.accountId,
   amount |-> IF q.amount # <<>> THEN q.amount[1] ELSE row.amount,
   type |-> IF q.type # Absent THEN q.type ELSE row.type,
   category |-> IF q.category # Absent THEN q.category ELSE row.category,
   date |-> IF q.date # <<>> THEN q.date[1] ELSE q.existing.date]

\* the callback of prisma.$transaction threw: the database rolls the
\* transaction back, which discards the writes in pend, and the handler
\* answers 500
Rollback(q) == [q EXCEPT !.pc = "done", !.status = 500]

\* tx.account.update({ balance: { increment } }) inside the open transaction
\* (no such row: it throws; a row locked by another transaction: it waits)
TxIncrement(r, a, inc, nextPc) ==
  IF a \notin DOMAIN balance
  THEN req' = [req EXCEPT ![r] = Rollback(req[r])]
  ELSE /\ ~LockedByOther(r, a)
       /\ req' = IF Overflows(balance[a] + req[r].pend[a] + inc)
                 THEN [req EXCEPT ![r] = Rollback(req[r])]
                 ELSE [req EXCEPT ![r].pend[a] = @ + inc,
                                  ![r].touched = @ \cup {a},
                                  ![r].pc = nextPc]

\* the handler up to prisma.$transaction: the body is parsed, then
\* transaction.findFirst is answered (served) or rejects, which the catch of
\* the handler answers with 500
UpdateBegin(r, u, id, amount, type, accountId, category, date) ==
  /\ req[r].pc = "idle"
  /\ ops < MaxOps
  /\ ops' = ops + 1
  /\ \E served \in BOOLEAN :
     LET found == FindTransaction(id, u)
         q == [IdleReq EXCEPT !.kind = "update", !.user = u, !.id = id,
                              !.amount = amount, !.type = type,
                              !.accountId = accountId, !.existing = found,
                              !.category = category, !.date = date]
     IN req' = [req EXCEPT ![r] =
                  IF ~UpdateSchemaAccepts(amount, type, category)
                  THEN Finish(q, 400)
                  ELSE IF ~served
                  THEN Finish(q, 500)
                  ELSE IF found = NoTxn THEN Finish(q, 404)
                  ELSE [q EXCEPT !.pc = "u_tx"]]
  /\ UNCHANGED <<balance, txns, usedIds, cache, aiVars, dashVars>>

\* revert the original effect on the original account
UpdateRevert(r) ==
  /\ req[r].pc = "u_tx"
  /\ BalanceAffected(req[r])
  /\ TxIncrement(r, req[r].existing.accountId,
                 RevertChange(req[r].existing.type, req[r].existing.amount),
                 "u_apply")
  /\ UNCHANGED <<balance, txns, usedIds, cache, ops, aiVars, dashVars>>

\* apply the new effect to the new or same account
UpdateApply(r) ==
  /\ req[r].pc = "u_apply"
  /\ TxIncrement(r, NewAccountId(req[r]),
                 BalanceChange(NewType(req[r]), NewAmount(req[r])),
                 "u_write")
  /\ UNCHANGED <<balance, txns, usedIds, cache, ops, aiVars, dashVars>>

\* tx.transaction.update, then the commit of the database transaction
UpdateWrite(r) ==
  /\ \/ req[r].pc = "u_write"
     \/ req[r].pc = "u_tx" /\ ~BalanceAffected(req[r])
  /\ LET q == req[r]
     IN IF txns[q.id] = NoTxn
           \/ (q.accountId # Absent /\ q.accountId \notin DOMAIN balance)
        THEN /\ req' = [req EXCEPT ![r] = Rollback(q)]
             /\ UNCHANGED <<balance, txns>>
        ELSE /\ txns' = [txns EXCEPT ![q.id] = UpdatedRow(txns[q.id], q)]
             /\ balance' = [a \in DOMAIN balance |-> balance[a] + q.pend[a]]
             /\ req' = [req EXCEPT ![r] = Written(req[r])]
  /\ UNCHANGED <<usedIds, cache, ops, aiVars, dashVars>>

\* as UpdateFail, but the increments made before the failure stay in the
\* balances, as they would without the database transaction
UpdateFail_NoRollback(r) ==
  /\ req[r].pc \in {"u_tx", "u_apply", "u_write"}
  /\ req' = [req EXCEPT ![r] = Rollback(req[r])]
  /\ balance' = [a \in DOMAIN balance |-> balance[a] + req[r].pend[a]]
  /\ UNCHANGED <<txns, usedIds, cache, ops, aiVars, dashVars>>

\* a statement of the update transaction, or its commit, fails
UpdateFail(r) ==
  /\ req[r].pc \in {"u_tx", "u_apply", "u_write"}
  /\ req' = [req EXCEPT ![r] = Rollback(req[r])]
  /\ UNCHANGED <<balance, txns, usedIds, cache, ops, aiVars, dashVars>>

\* ------------------------------------------------------------------------
\* DELETE /api/transactions/:id
\* ------------------------------------------------------------------------
\* the handler up to prisma.$transaction: transaction.findFirst is answered
\* (served) or rejects, which the catch of the handler answers with 500
DeleteBegin(r, u, id) ==
  /\ req[r].pc = "idle"
  /\ ops < MaxOps
  /\ ops' = ops + 1
  /\ \E served \in BOOLEAN :
     LET found == FindTransaction(id, u)
         q == [IdleReq EXCEPT !.kind = "delete", !.user = u, !.id = id,
                              !.existing = found]
     IN req' = [req EXCEPT ![r] = IF ~served THEN Finish(q, 500)
                                  ELSE IF found = NoTxn THEN Finish(q, 404)
                                  ELSE [q EXCEPT !.pc = "d_revert"]]
  /\ UNCHANGED <<balance, txns, usedIds, cache, aiVars, dashVars>>

\* revert the balance change from the account
DeleteRevert(r) ==
  /\ req[r].pc = "d_revert"
  /\ TxIncrement(r, req[r].existing.accountId,
                 RevertChange(req[r].existing.type, req[r].existing.amount),
                 "d_delete")
  /\ UNCHANGED <<balance, txns, usedIds, cache, ops, aiVars, dashVars>>

\* tx.transaction.delete, then the commit of the database transaction
DeleteRow(r) ==
  /\ req[r].pc = "d_delete"
  /\ LET q == req[r]
     IN IF txns[q.id] = NoTxn
        THEN /\ req' = [req EXCEPT ![r] = Rollback(q)]
             /\ UNCHANGED <<balance, txns>>
        ELSE /\ txns' = [txns EXCEPT ![q.id] = NoTxn]
             /\ balance' = [a \in DOMAIN balance |-> balance[a] + q.pend[a]]
             /\ req' = [req EXCEPT ![r] = Written(req[r])]
  /\ UNCHANGED <<usedIds, cache, ops, aiVars, dashVars>>

\* a statement of the delete transaction, or its commit, fails
DeleteFail(r) ==
  /\ req[r].pc \in {"d_revert", "d_delete"}
  /\ req' = [req EXCEPT ![r] = Rollback(req[r])]
  /\ UNCHANGED <<balance, txns, usedIds, cache, ops, aiVars, dashVars>>

\* ------------------------------------------------------------------------
\* POST /api/accounts and the first OAuth login
\* ------------------------------------------------------------------------
\* the balances the bodies of POST /api/accounts name
AccountBalances == {0, 500}

\* accountSchema.parse of a body with or without a name (400 without), then
\* the call of prisma.account.create
AccountCreateBegin(r, u, named, bal) ==
  /\ req[r].pc = "idle"
  /\ ops < MaxOps
  /\ ops' = ops + 1
  /\ NewAccountOf[u] \notin DOMAIN balance
  /\ LET q == [IdleReq EXCEPT !.kind = "account", !.user = u,
                              !.amount = <<bal>>]
     IN req' = [req EXCEPT ![r] = IF named THEN [q EXCEPT !.pc = "a_create"]
                                  ELSE Finish(q, 400)]
  /\ UNCHANGED <<balance, txns, usedIds, cache, aiVars, dashVars>>

\* prisma.account.create({ data: { ...validatedData, userId } }) and the
\* answer 201; a balance outside the column's range answers 500
AccountCreate(r) ==
  /\ req[r].pc = "a_create"
  /\ LET a == NewAccountOf[req[r].user]
         bal == req[r].amount[1]
     IN /\ a \notin DOMAIN balance
        /\ IF Overflows(bal)
           THEN /\ req' = [req EXCEPT ![r] = Finish(req[r], 500)]
                /\ UNCHANGED balance
           ELSE /\ balance' = [x \in DOMAIN balance \cup {a} |->
                                IF x = a THEN bal ELSE balance[x]]
                /\ req' = [req EXCEPT ![r] =
                             Finish([req[r] EXCEPT !.accountId = a], 201)]
  /\ UNCHANGED <<txns, usedIds, cache, ops, aiVars, dashVars>>

\* prisma.account.create throws
AccountCreateFail(r) ==
  /\ req[r].pc = "a_create"
  /\ req' = [req EXCEPT ![r] = Finish(req[r], 500)]
  /\ UNCHANGED <<balance, txns, usedIds, cache, ops, aiVars, dashVars>>

\* prisma.account.createMany of the first OAuth login of a new user: the
\* two default accounts, each with balance 0
OAuthCreateAccounts ==
  /\ DefaultAccounts \cap DOMAIN balance = {}
  /\ balance' = [x \in DOMAIN balance \cup DefaultAccounts |->
                   IF x \in DefaultAccounts THEN 0 ELSE balance[x]]
  /\ UNCHANGED <<txns, usedIds, cache, req, ops, aiVars, dashVars>>

\* ------------------------------------------------------------------------
\* generateSampleData
\* ------------------------------------------------------------------------
\* batchSize, the number of rows of one createMany
SampleBatchSize == 10
\* the templates of sampleTransactions
SampleTemplates ==
  <<[amount |-> 5000, type |-> "INCOME", category |-> "SALARY"],
    [amount |-> 1200, type |-> "INCOME", category |-> "FREELANCE"],
    [amount |-> 150, type |-> "INCOME", category |-> "DIVIDEND_INCOME"],
    [amount |-> -125, type |-> "EXPENSE", category |-> "FOOD_DINING"],
    [amount |-> -68, type |-> "EXPENSE", category |-> "FOOD_DINING"],
    [amount |-> -12, type |-> "EXPENSE", category |-> "FOOD_DINING"],
    [amount |-> -18, type |-> "EXPENSE", category |-> "FOOD_DINING"],
    [amount |-> -55, type |-> "EXPENSE", category |-> "TRANSPORTATION"],
    [amount |-> -23, type |-> "EXPENSE", category |-> "TRANSPORTATION"],
    [amount |-> -8, type |-> "EXPENSE", category |-> "TRANSPORTATION"],
    [amount |-> -120, type |-> "EXPENSE", category |-> "BILLS_UTILITIES"],
    [amount |-> -65, type |-> "EXPENSE", category |-> "BILLS_UTILITIES"],
    [amount |-> -45, type |-> "EXPENSE", category |-> "BILLS_UTILITIES"],
    [amount |-> -15, type |-> "EXPENSE", category |-> "ENTERTAINMENT"],
    [amount |-> -32, type |-> "EXPENSE", category |-> "ENTERTAINMENT"],
    [amount |-> -10, type |-> "EXPENSE", category |-> "ENTERTAINMENT"],
    [amount |-> -87, type |-> "EXPENSE", category |-> "SHOPPING"],
    [amount |-> -145, type |-> "EXPENSE", category |-> "SHOPPING"],
    [amount |-> -76, type |-> "EXPENSE", category |-> "SHOPPING"],
    [amount |-> -200, type |-> "EXPENSE", category |-> "HEALTHCARE"],
    [amount |-> -35, type |-> "EXPENSE", category |-> "HEALTHCARE"],
    [amount |-> -40, type |-> "EXPENSE", category |-> "PERSONAL_CARE"],
    [amount |-> -25, type |-> "EXPENSE", category |-> "EDUCATION"]>>

\* Math.random() gives a number from 0 up to but not 1, here in
\* ten-thousandths
RandomUnit == 10000
\* the runs of Math.random() of a call: the draws go round the numbers of a
\* run one after the other.  All draws 0, all 0.5, all 0.9996, and a run
\* of 79 transactions that are in turn an income late on the checking
\* account and an expense early on the savings account; with these every
\* amount is a whole number of units
RandomRuns ==
  {<<0>>, <<5000>>, <<9996>>, <<9996, 9996, 0, 5000, 0, 0, 9996, 9996>>}
\* the k-th draw of a run, counted from 0
MathRandom(rnd, k) == rnd[(k % Len(rnd)) + 1]

\* Math.round(num / den) for den > 0: the nearest integer, halves upwards
MathRound(num, den) == (2 * num + den) \div (2 * den)

\* Math.floor(Math.random() * 30) + 50 for the draw r
TransactionCount(r) == (r * 30) \div RandomUnit + 50

\* Math.round(template.amount * variation * 100) / 100 for the variation
\* 0.8 + r * 0.4 of the draw r, in units
SampleAmount(amount, r) ==
  MathRound(amount * (8 * RandomUnit + 4 * r), RandomUnit \div 10) \div 100

\* threeMonthsAgo + r * (now - threeMonthsAgo) for the draw r, as a day
SampleDate(r) == ThreeMonthsAgo + (r * (Now - ThreeMonthsAgo)) \div RandomUnit

\* accounts.find((acc) => acc.type === type) over the accounts of the user:
\* the accounts it can give back (findMany names no order)
AccountsOfType(u, type) ==
  {a \in DOMAIN balance : AccountOwner[a] = u /\ AccountType[a] = type}

\* the n-th transaction the loop pushes: after the draw of transactionCount
\* each takes four draws, for its date, its template, its variation and its
\* account, which is the savings account when the draw is above 0.85 and
\* there is one
SampleRow(u, checking, savings, rnd, n) ==
  LET k == 4 * (n - 1)
      tpl == SampleTemplates[
               (MathRandom(rnd, k + 2) * Len(SampleTemplates))
                  \div RandomUnit + 1]
  IN [userId |-> u,
      accountId |-> IF MathRandom(rnd, k + 4) * 100 > 85 * RandomUnit
                       /\ savings # Absent
                    THEN savings ELSE checking,
      amount |-> SampleAmount(tpl.amount, MathRandom(rnd, k + 3)),
      type |-> tpl.type, category |-> tpl.category,
      date |-> SampleDate(MathRandom(rnd, k + 1))]

\* the transactions the loop pushes, in the order it pushes them
SampleRows(u, checking, savings, rnd) ==
  [n \in 1..TransactionCount(MathRandom(rnd, 0)) |->
     SampleRow(u, checking, savings, rnd, n)]

RECURSIVE ByDate(_, _)
\* the rows of list that have a date of dates, date after date from the
\* earliest on, those of one date in the order of list
ByDate(list, dates) ==
  IF dates = {} THEN <<>>
  ELSE LET d == CHOOSE x \in dates : \A y \in dates : x <= y
       IN SelectSeq(list, LAMBDA t : t.date = d) \o ByDate(list, dates \ {d})

\* transactions.sort by date, oldest first: the sort is stable, rows of one
\* date stay in the order they were pushed in
SortByDate(list) == ByDate(list, {list[i].date : i \in 1..Len(list)})

RECURSIVE SampleSum(_, _, _)
\* checkingBalance and savingsBalance: the sum of the raw amounts of the
\* first n generated transactions that are on account a
SampleSum(l, n, a) ==
  IF n = 0 THEN 0
  ELSE SampleSum(l, n - 1, a)
         + (IF l[n].accountId = a THEN l[n].amount ELSE 0)

\* the call up to the first createMany: prisma.account.findMany, which the
\* database serves or rejects (the catch rethrows), the return when the user
\* has no checking account, and the generated transactions; pend holds
\* checkingBalance and savingsBalance.  Status 200 stands for a promise that
\* resolved, 500 for one that rejected
GenerateSampleData(r, u) ==
  /\ req[r].pc = "idle"
  /\ ops < MaxOps
  /\ ops' = ops + 1
  /\ LET q == [IdleReq EXCEPT !.kind = "sample", !.user = u]
     IN \E served \in BOOLEAN :
        IF ~served
        THEN req' = [req EXCEPT ![r] = Finish(q, 500)]
        ELSE IF AccountsOfType(u, "CHECKING") = {}
        THEN req' = [req EXCEPT ![r] = Finish(q, 200)]
        ELSE \E c \in AccountsOfType(u, "CHECKING"),
                s \in IF AccountsOfType(u, "SAVINGS") = {} THEN {Absent}
                      ELSE AccountsOfType(u, "SAVINGS") :
               \E rnd \in RandomRuns :
                 LET l == SortByDate(SampleRows(u, c, s, rnd))
                 IN
                 req' = [req EXCEPT ![r] =
                           [q EXCEPT
                              !.pc = "s_create", !.accountId = c,
                              !.savings = s, !.rows = l,
                              !.pend = [a \in Accounts |->
                                          SampleSum(l, Len(l), a)]]]
  /\ UNCHANGED <<balance, txns, usedIds, cache, aiVars, dashVars>>

\* the id the database gives the n-th row that generateSampleData inserts
SampleId(n) == "s" \o ToString(n)

\* the table and the ids in use after the rows of a batch are inserted, each
\* under a new id
InsertRows(rows, table, used) ==
  LET base == Cardinality(used \ TxnIds)
      new == {SampleId(base + i) : i \in 1..Len(rows)}
  IN [table |-> [t \in DOMAIN table \cup new |->
                   IF t \in DOMAIN table THEN table[t]
                   ELSE rows[CHOOSE i \in 1..Len(rows) :
                               SampleId(base + i) = t]],
      used |-> used \cup new]

\* prisma.transaction.createMany({ data: batch }) of the next batch, the
\* first batchSize of the rows still to insert
SampleCreateMany(r) ==
  /\ req[r].pc = "s_create"
  /\ LET n == Min(SampleBatchSize, Len(req[r].rows))
         batch == SubSeq(req[r].rows, 1, n)
         after == InsertRows(batch, txns, usedIds)
     IN /\ txns' = after.table
        /\ usedIds' = after.used
        /\ req' = [req EXCEPT
                     ![r].rows = SubSeq(@, n + 1, Len(@)),
                     ![r].pc = IF Len(req[r].rows) = n THEN "s_checking"
                               ELSE "s_create"]
  /\ UNCHANGED <<balance, cache, ops, aiVars, dashVars>>

\* the balance prisma.account.update({ data: { balance } }) writes over the
\* stored one
SampleBalance(sum) == Max(0, sum)

\* the update of the checking account; a row locked by an open database
\* transaction makes it wait
SampleUpdateChecking(r) ==
  /\ req[r].pc = "s_checking"
  /\ ~LockedByOther(r, req[r].accountId)
  /\ balance' = [balance EXCEPT ![req[r].accountId] =
                   SampleBalance(req[r].pend[req[r].accountId])]
  /\ req' = [req EXCEPT ![r] = IF req[r].savings = Absent
                               THEN Finish(req[r], 200)
                               ELSE [req[r] EXCEPT !.pc = "s_savings"]]
  /\ UNCHANGED <<txns, usedIds, cache, ops, aiVars, dashVars>>

\* the update of the savings account, and the return
SampleUpdateSavings(r) ==
  /\ req[r].pc = "s_savings"
  /\ ~LockedByOther(r, req[r].savings)
  /\ balance' = [balance EXCEPT ![req[r].savings] =
                   SampleBalance(req[r].pend[req[r].savings])]
  /\ req' = [req EXCEPT ![r] = Finish(req[r], 200)]
  /\ UNCHANGED <<txns, usedIds, cache, ops, aiVars, dashVars>>

\* a createMany or an account.update of generateSampleData throws: the catch
\* logs and rethrows
SampleFail(r) ==
  /\ req[r].pc \in {"s_create", "s_checking", "s_savings"}
  /\ req' = [req EXCEPT ![r] = Finish(req[r], 500)]
  /\ UNCHANGED <<balance, txns, usedIds, cache, ops, aiVars, dashVars>>

\* ------------------------------------------------------------------------
\* RedisService
\* ------------------------------------------------------------------------
\* what a cache method is given to store: a value that is not null, null, or
\* undefined
CacheData == {"object", "null", "undefined"}

\* JSON.stringify(data) as it reaches SETEX: the JSON text of the value, the
\* text null, and for undefined, which JSON.stringify gives back as it is,
\* the empty string that ioredis sends for an argument that is not there
JsonStringify(data) ==
  CASE data = "object" -> "{}"
    [] data = "null" -> "null"
    [] OTHER -> ""

\* the strings a key can hold: those, and one that is no JSON text, which
\* only another writer of the Redis server can have left
StoredTexts == {"{}", "null", "", "oops"}

\* JSON.parse(text) returns: text is a JSON text
JsonParses(text) == text \in {"{}", "null"}

\* the entries of one user: key k holds a string, and what it holds
Held(u, k) == \E e \in cache[u] : e.key = k
TextOf(u, k) == (CHOOSE e \in cache[u] : e.key = k).text

\* DEL and SETEX on the entries of one user
Del(entries, k) == {e \in entries : e.key # k}
SetEx(entries, k, text) == Del(entries, k) \cup {[key |-> k, text |-> text]}

\* what a get method gives back when GET answers: null on a miss, which is
\* no string or the empty string (if (cached)), else JSON.parse of the
\* string, which is null for the text null; when JSON.parse throws, the
\* catch of the method returns null
ReadOutcome(u, k) ==
  IF ~Held(u, k) \/ TextOf(u, k) = "" THEN "null"
  ELSE IF ~JsonParses(TextOf(u, k)) THEN "null"
  ELSE IF TextOf(u, k) = "null" THEN "null"
  ELSE "value"

\* as InvalidateUserCache, but the error of a DEL reaches the catch of the
\* handler, which answers 500
InvalidateUserCache_Throws(r) ==
  /\ req[r].pc = "inval"
  /\ \/ /\ cache' = [cache EXCEPT ![req[r].user] = Del(@, Head(req[r].keys))]
        /\ req' = [req EXCEPT ![r].keys = Tail(@),
                              ![r].pc = IF Len(req[r].keys) = 1
                                        THEN "respond" ELSE "inval"]
     \/ /\ req' = [req EXCEPT ![r] = Finish(req[r], 500)]
        /\ UNCHANGED cache
  /\ UNCHANGED <<balance, txns, usedIds, ops, aiVars, dashVars>>

\* one pass of the loop of invalidateUserCache: the awaited DEL of the next
\* key deletes it and the loop goes on, or returns after the last key; a
\* DEL that throws ends the loop, the catch logs the error and the method
\* returns with the keys not yet deleted left behind
InvalidateUserCache(r) ==
  /\ req[r].pc = "inval"
  /\ \/ /\ cache' = [cache EXCEPT ![req[r].user] = Del(@, Head(req[r].keys))]
        /\ req' = [req EXCEPT ![r].keys = Tail(@),
                              ![r].pc = IF Len(req[r].keys) = 1
                                        THEN "respond" ELSE "inval"]
     \/ /\ req' = [req EXCEPT ![r].keys = <<>>, ![r].pc = "respond"]
        /\ UNCHANGED cache
  /\ UNCHANGED <<balance, txns, usedIds, ops, aiVars, dashVars>>

\* publishUpdate (its failure is logged and dropped), then res.json
Respond(r) ==
  /\ req[r].pc = "respond"
  /\ req' = [req EXCEPT ![r] =
               Finish(req[r], IF req[r].kind = "create" THEN 201 ELSE 200)]
  /\ UNCHANGED <<balance, txns, usedIds, cache, ops, aiVars, dashVars>>

\* the connection of a finished request is free for the next request
Reset(r) ==
  /\ req[r].pc = "done"
  /\ req' = [req EXCEPT ![r] = IdleReq]
  /\ UNCHANGED <<balance, txns, usedIds, cache, ops, aiVars, dashVars>>

\* setex of cacheDashboardData
CacheDashboardData(u, data) ==
  /\ cache' = [cache EXCEPT ![u] = SetEx(@, "dashboard", JsonStringify(data))]
  /\ UNCHANGED <<balance, txns, usedIds, req, ops, aiVars, dashVars>>

\* setex of cacheAIInsights
CacheAIInsights(u, data) ==
  /\ cache' = [cache EXCEPT ![u] = SetEx(@, "ai-insights", JsonStringify(data))]
  /\ UNCHANGED <<balance, txns, usedIds, req, ops, aiVars, dashVars>>

\* setex of cacheTransactionHistory, which is given an array
CacheTransactionHistory(u) ==
  /\ cache' = [cache EXCEPT ![u] =
                 SetEx(@, "transactions", JsonStringify("object"))]
  /\ UNCHANGED <<balance, txns, usedIds, req, ops, aiVars, dashVars>>

\* getDashboardData, getAIInsights, getTransactionHistory when GET answers:
\* the value parsed from the string under key k of user u, or null
GetCachedData(u, k) ==
  /\ dash.pc = "idle"
  /\ dash' = [IdleDash EXCEPT
                !.pc = "done", !.kind = "cache-get", !.user = u, !.key = k,
                !.outcome = ReadOutcome(u, k),
                !.fault = (Held(u, k) /\ TextOf(u, k) # ""
                           /\ ~JsonParses(TextOf(u, k)))]
  /\ UNCHANGED <<ledgerVars, aiVars, budgets, isActive>>

\* client.get throws: the catch of the method logs the error and returns null
GetCachedDataError(u, k) ==
  /\ dash.pc = "idle"
  /\ dash' = [IdleDash EXCEPT
                !.pc = "done", !.kind = "cache-get", !.user = u, !.key = k,
                !.outcome = "null", !.fault = TRUE]
  /\ UNCHANGED <<ledgerVars, aiVars, budgets, isActive>>

\* client.setex of cacheDashboardData, cacheAIInsights or
\* cacheTransactionHistory throws: the catch of the method logs the error,
\* nothing is stored and the method returns
CacheWriteError(u, k) ==
  /\ dash.pc = "idle"
  /\ dash' = [IdleDash EXCEPT
                !.pc = "done", !.kind = "cache-set", !.user = u, !.key = k,
                !.outcome = "returned", !.fault = TRUE]
  /\ UNCHANGED <<ledgerVars, aiVars, budgets, isActive>>

\* the time to live of a key runs out
Expire(u, k) ==
  /\ Held(u, k)
  /\ cache' = [cache EXCEPT ![u] = Del(@, k)]
  /\ UNCHANGED <<balance, txns, usedIds, req, ops, aiVars, dashVars>>

\* ------------------------------------------------------------------------
\* services/aiService.ts
\* ------------------------------------------------------------------------
InsightTypes == {"SPENDING_PATTERN", "BUDGET_RECOMMENDATION",
                 "INVESTMENT_ADVICE", "SAVING_OPPORTUNITY",
                 "RISK_ASSESSMENT", "MARKET_ANALYSIS"}

\* confidences are hundredths: 70 is 0.7; nan says that the confidence is
\* the number NaN, at is the createdAt of a stored row in the milliseconds
\* of clock (0 for an insight that was not read from a row), old says that
\* createdAt is more than 7 days ago.  An id is the sequence of the parts the
\* code joins with "-"
ApiKeyMissingInsight ==
  [id |-> <<"api-key-missing">>, type |-> "SPENDING_PATTERN", confidence |-> 0,
   nan |-> FALSE, at |-> 0, old |-> FALSE]
WelcomeInsight ==
  [id |-> <<"welcome-insight">>, type |-> "SPENDING_PATTERN",
   confidence |-> 100, nan |-> FALSE, at |-> 0, old |-> FALSE]
UnavailableInsight ==
  [id |-> <<"fallback-insight">>, type |-> "SPENDING_PATTERN",
   confidence |-> 50, nan |-> FALSE, at |-> 0, old |-> FALSE]
\* the fallback of parseAIResponse, id fallback-${Date.now()}
GenericInsight(now) ==
  [id |-> <<"fallback", now>>, type |-> "SPENDING_PATTERN",
   confidence |-> 80, nan |-> FALSE, at |-> 0, old |-> FALSE]

\* the confidence property of an element: not there (or JSON null), a number
\* in hundredths, or a string that is no numeral, such as "high"
NoConfidence == [kind |-> "absent", n |-> 0]
NumberConfidence(n) == [kind |-> "number", n |-> n]
TextConfidence == [kind |-> "string", n |-> 0]

\* an element of the JSON array of the response: JSON null, or an object
\* whose type and confidence fields are present or not
NullElem == [null |-> TRUE, type |-> Absent, confidence |-> NoConfidence]

\* what model.generateContent(prompt) can do: throw, or answer a text that
\* holds no [...] at all, a [...] that is not JSON, or a JSON array
Responses(E) ==
  {[kind |-> k, elems |-> <<>>] : k \in {"error", "nojson", "badjson"}}
  \cup {[kind |-> "array", elems |-> es] :
          es \in UNION {[1..n -> E] : n \in 0..MaxElems}}

\* the elements used where whole generation runs follow one another
FlowElems == {NullElem,
              [null |-> FALSE, type |-> Absent, confidence |-> NoConfidence],
              [null |-> FALSE, type |-> "BUDGET_RECOMMENDATION",
               confidence |-> NumberConfidence(85)],
              [null |-> FALSE, type |-> "BOGUS",
               confidence |-> NumberConfidence(200)],
              [null |-> FALSE, type |-> "RISK_ASSESSMENT",
               confidence |-> TextConfidence]}


\* Math.max of a string that is no numeral is NaN, and so is Math.min of NaN
ConfidenceIsNaN(c) == c.kind = "string"

\* Math.min(Math.max(insight.confidence || 0.7, 0), 1) where it is a number
ParseConfidence(c) ==
  LET given == IF c.kind = "absent" \/ c.n = 0 THEN 70 ELSE c.n
  IN IF ConfidenceIsNaN(c) THEN 0 ELSE Min(Max(given, 0), 100)

\* the object built for the element at index of the array, id
\* ai-insight-${Date.now()}-${index}
ParseElem(e, now, index) ==
  [id |-> <<"ai-insight", now, index>>,
   type |-> IF e.type = Absent THEN "SPENDING_PATTERN" ELSE e.type,
   confidence |-> ParseConfidence(e.confidence),
   nan |-> ConfidenceIsNaN(e.confidence), at |-> 0, old |-> FALSE]

\* the parse ends in its catch: no match of /\[[\s\S]*\]/, a JSON.parse
\* error, or a property read on null inside map
Caught(resp) ==
  resp.kind # "array" \/ \E i \in 1..Len(resp.elems) : resp.elems[i].null

\* the readings of Date.now() whose ids parseAIResponse returns: one for each
\* element of the array, or the one of the fallback
Readings(resp) == IF Caught(resp) THEN 1 ELSE Len(resp.elems)

\* as ParseAIResponse, but without the catch: the error reaches
\* generateFinancialInsights, whose catch answers the unavailable insight
ParseAIResponse_NoCatch(resp, times) ==
  IF Caught(resp)
  THEN <<UnavailableInsight>>
  ELSE [i \in 1..Len(resp.elems) |->
          ParseElem(resp.elems[i], times[i], i - 1)]

\* parseAIResponse; times[i] is what Date.now() gives when the callback of
\* map builds the id of element i, times[1] what it gives in the catch
ParseAIResponse(resp, times) ==
  IF Caught(resp)
  THEN <<GenericInsight(times[1])>>
  ELSE [i \in 1..Len(resp.elems) |->
          ParseElem(resp.elems[i], times[i], i - 1)]

\* A response text as a sequence of tokens: the brackets and the comma of
\* JSON, the literal null, an object without fields, an object with a type
\* and a confidence, and a word of prose
Tokens == {"[", "]", ",", "null", "{}", "{b}", "w"}
Texts == UNION {[1..n -> Tokens] : n \in 0..MaxTextLen}

\* aiResponse.match(/\[[\s\S]*\]/): from the first "[" that has a "]" after it
\* to the last "]" of the text
MatchStart(text) ==
  LET starts == {i \in 1..Len(text) :
                   text[i] = "[" /\ \E j \in (i+1)..Len(text) : text[j] = "]"}
  IN IF starts = {} THEN 0
     ELSE CHOOSE i \in starts : \A k \in starts : i <= k
MatchEnd(text) ==
  CHOOSE j \in 1..Len(text) :
    text[j] = "]" /\ \A k \in 1..Len(text) : text[k] = "]" => k <= j
JsonMatch(text) ==
  IF MatchStart(text) = 0 THEN <<>>
  ELSE SubSeq(text, MatchStart(text), MatchEnd(text))

RECURSIVE JsonValueEnd(_, _)
\* JSON.parse reading one value of s at position i: the position after the
\* value, or 0 where s has no value at i
JsonValueEnd(s, i) ==
  IF i > Len(s) THEN 0
  ELSE IF s[i] \in {"null", "{}", "{b}"} THEN i + 1
  ELSE IF s[i] # "[" THEN 0
  ELSE IF i + 1 <= Len(s) /\ s[i + 1] = "]" THEN i + 2
  ELSE LET RECURSIVE Items(_)
           Items(k) ==
             LET e == JsonValueEnd(s, k)
             IN IF e = 0 \/ e > Len(s) THEN 0
                ELSE IF s[e] = "]" THEN e + 1
                ELSE IF s[e] = "," THEN Items(e + 1)
                ELSE 0
       IN Items(i + 1)

\* JSON.parse accepts s: one value and nothing after it
IsJson(s) == JsonValueEnd(s, 1) = Len(s) + 1

\* the element of the parsed array that the value starting with token tok is;
\* an array inside the array has no title, type or confidence property
ElemOf(tok) ==
  CASE tok = "null" -> NullElem
    [] tok = "{b}"  -> [null |-> FALSE, type |-> "BUDGET_RECOMMENDATION",
                        confidence |-> NumberConfidence(85)]
    [] OTHER        -> [null |-> FALSE, type |-> Absent,
                        confidence |-> NoConfidence]

RECURSIVE JsonElems(_, _)
\* the elements of the array s = [ ... ] from the value at position i on
JsonElems(s, i) ==
  IF s[i] = "]" THEN <<>>
  ELSE LET e == JsonValueEnd(s, i)
       IN <<ElemOf(s[i])>> \o (IF s[e] = "," THEN JsonElems(s, e + 1)
                                ELSE <<>>)

\* what the match and JSON.parse make of a response text
ResponseOf(text) ==
  IF MatchStart(text) = 0 THEN [kind |-> "nojson", elems |-> <<>>]
  ELSE IF ~IsJson(JsonMatch(text)) THEN [kind |-> "badjson", elems |-> <<>>]
  ELSE [kind |-> "array", elems |-> JsonElems(JsonMatch(text), 2)]

\* parseAIResponse(aiResponse, userId) on a response text
ParseAIText(text, times) == ParseAIResponse(ResponseOf(text), times)

\* all transactions of the user
AllTransactions(u) ==
  {t \in DOMAIN txns : txns[t] # NoTxn /\ txns[t].userId = u}

\* the transactions getUserFinancialData reads for the user: those dated
\* threeMonthsAgo or later
UserTransactions(u) ==
  {t \in AllTransactions(u) : txns[t].date >= ThreeMonthsAgo}

\* take: 10 of getUserInsights
InsightsTake == 10

\* the orders in which a query ordered by createdAt descending can give the
\* rows: those of one createdAt come in whatever order the database produces
RECURSIVE OrderByCreatedAtDesc(_)
OrderByCreatedAtDesc(rows) ==
  IF rows = {} THEN {<<>>}
  ELSE LET newest == {x \in rows : \A y \in rows : x.at >= y.at}
       IN UNION {{<<x>> \o rest : rest \in OrderByCreatedAtDesc(rows \ {x})} :
                   x \in newest}

\* what findMany of getUserInsights can answer over the stored rows list:
\* the rows newest first, at most InsightsTake of them
FindManyInsights(list) ==
  {SubSeq(l, 1, Min(InsightsTake, Len(l))) :
     l \in OrderByCreatedAtDesc({list[i] : i \in 1..Len(list)})}

\* the answers getUserInsights can give for the user
GetUserInsights(u) == FindManyInsights(insights[u])

AiDone(q, list) == [q EXCEPT !.pc = "done", !.result = list, !.status = 200]

\* generateFinancialInsights up to the API key check
GenerateBegin(q) ==
  IF ~apiKey THEN AiDone([q EXCEPT !.gen = TRUE], <<ApiKeyMissingInsight>>)
  ELSE [q EXCEPT !.pc = "g_data", !.gen = TRUE]

\* GET /api/ai/insights: getUserInsights, and generation when it is empty.
\* Nothing keeps a second request from starting while one is under way
InsightsGet(g, u) ==
  /\ ai[g].pc = "idle"
  /\ aiOps < MaxAiOps
  /\ aiOps' = aiOps + 1
  /\ LET q == [IdleAi EXCEPT !.kind = "get", !.user = u]
     IN \E stored \in GetUserInsights(u) :
          ai' = [ai EXCEPT ![g] = IF Len(stored) > 0
                                  THEN AiDone(q, stored)
                                  ELSE GenerateBegin(q)]
  /\ UNCHANGED <<ledgerVars, dashVars, apiKey, insights, clock>>

\* GET /api/ai/insights when the query of getUserInsights fails: it answers []
InsightsGetDbError(g, u) ==
  /\ ai[g].pc = "idle"
  /\ aiOps < MaxAiOps
  /\ aiOps' = aiOps + 1
  /\ ai' = [ai EXCEPT ![g] =
              GenerateBegin([IdleAi EXCEPT !.kind = "get", !.user = u])]
  /\ UNCHANGED <<ledgerVars, dashVars, apiKey, insights, clock>>

\* POST /api/ai/analyze
Analyze(g, u) ==
  /\ ai[g].pc = "idle"
  /\ aiOps < MaxAiOps
  /\ aiOps' = aiOps + 1
  /\ ai' = [ai EXCEPT ![g] =
              GenerateBegin([IdleAi EXCEPT !.kind = "analyze", !.user = u])]
  /\ UNCHANGED <<ledgerVars, dashVars, apiKey, insights, clock>>

\* getUserFinancialData, then the welcome branch
GetUserFinancialData(g) ==
  /\ ai[g].pc = "g_data"
  /\ ai' = [ai EXCEPT ![g] = IF UserTransactions(ai[g].user) = {}
                             THEN AiDone(ai[g], <<WelcomeInsight>>)
                             ELSE [ai[g] EXCEPT !.pc = "g_call"]]
  /\ UNCHANGED <<ledgerVars, dashVars, apiKey, insights, aiOps, clock>>

\* getUserFinancialData when a query fails: its catch returns no transactions
GetUserFinancialDataError(g) ==
  /\ ai[g].pc = "g_data"
  /\ ai' = [ai EXCEPT ![g] = AiDone(ai[g], <<WelcomeInsight>>)]
  /\ UNCHANGED <<ledgerVars, dashVars, apiKey, insights, aiOps, clock>>

\* some id, stored or held by a request, was made in millisecond m
MilliUsed(m) ==
  LET made(list) == \E i \in 1..Len(list) :
                       Len(list[i].id) > 1 /\ list[i].id[2] = m
  IN \/ \E u \in Users : made(insights[u])
     \/ \E g \in AiReqs : made(ai[g].result)

\* n readings of Date.now() one after the other: the first gives the
\* millisecond of the last reading before it or a later one, each further
\* one that of the reading before it or the next.  Milliseconds are told
\* apart by the ids made in them, so a reading moves on only from a
\* millisecond that has ids
ParseTimes(n) ==
  {t \in [1..n -> clock..(clock + n)] :
     /\ n > 0 => t[1] \in IF MilliUsed(clock) THEN {clock, clock + 1}
                          ELSE {clock}
     /\ \A i \in 1..(n - 1) : t[i + 1] \in {t[i], t[i] + 1}}

\* model.generateContent answers or throws; parseAIResponse
GenerateContent(g, resp) ==
  /\ ai[g].pc = "g_call"
  /\ IF resp.kind = "error"
     THEN /\ ai' = [ai EXCEPT ![g] = AiDone(ai[g], <<UnavailableInsight>>)]
          /\ UNCHANGED clock
     ELSE \E times \in ParseTimes(Readings(resp)) :
            /\ ai' = [ai EXCEPT ![g] =
                        [ai[g] EXCEPT !.pc = "g_save",
                                      !.result = ParseAIResponse(resp, times)]]
            /\ clock' = IF times = <<>> THEN clock ELSE times[Len(times)]
  /\ UNCHANGED <<ledgerVars, dashVars, apiKey, insights, aiOps>>

\* the column ai_insights.type is the enum InsightType: createMany throws on
\* any other value and inserts no row
Insertable(list) == \A i \in 1..Len(list) : list[i].type \in InsightTypes

\* the column ai_insights.id is the primary key: createMany throws when a
\* row of list has the id of a stored row of whatever user
IdTaken(list) ==
  \E i \in 1..Len(list), u \in Users :
    \E j \in 1..Len(insights[u]) : list[i].id = insights[u][j].id

\* what createMany can do with the rows of list: insert them all (TRUE) or
\* throw and insert none (FALSE).  The source does not settle whether a
\* confidence of NaN is accepted for the column
InsertOutcomes(list) ==
  IF ~Insertable(list) \/ IdTaken(list) THEN {FALSE}
  ELSE IF \E i \in 1..Len(list) : list[i].nan THEN BOOLEAN
  ELSE {TRUE}

\* the rows deleteMany({ createdAt: { lt: now - 7 days } }) leaves
Recent(list) == SelectSeq(list, LAMBDA x : ~x.old)

\* saveInsightsToDatabase, first statement: the awaited deleteMany of the
\* caller's rows older than 7 days
SaveInsightsDeleteMany(g) ==
  /\ ai[g].pc = "g_save"
  /\ insights' = [insights EXCEPT ![ai[g].user] = Recent(@)]
  /\ ai' = [ai EXCEPT ![g].pc = "g_insert"]
  /\ UNCHANGED <<ledgerVars, dashVars, apiKey, aiOps, clock>>

\* the createdAt of the stored rows
CreatedAts ==
  UNION {{insights[u][i].at : i \in 1..Len(insights[u])} : u \in Users}

\* a reading of CURRENT_TIMESTAMP(3), the default of the column createdAt:
\* the millisecond of the last reading of the time before it or a later one.
\* A createdAt is compared with those of other rows only, so the reading
\* moves on only from a millisecond in which a row was stored
CurrentTimestamp ==
  IF clock \in CreatedAts THEN {clock, clock + 1} ELSE {clock}

\* the rows one createMany stores for list: the data name no createdAt, so
\* each row gets the default of the column, the time of the statement
CreatedRows(list, now) == [i \in 1..Len(list) |-> [list[i] EXCEPT !.at = now]]

\* saveInsightsToDatabase, second statement: the awaited createMany, whose
\* error the catch logs; then return insights
SaveInsightsToDatabase(g) ==
  /\ ai[g].pc = "g_insert"
  /\ \E inserted \in InsertOutcomes(ai[g].result) :
       IF inserted /\ ai[g].result # <<>>
       THEN \E now \in CurrentTimestamp :
              /\ insights' = [insights EXCEPT ![ai[g].user] =
                                CreatedRows(ai[g].result, now) \o @]
              /\ clock' = now
       ELSE UNCHANGED <<insights, clock>>
  /\ ai' = [ai EXCEPT ![g] = AiDone(ai[g], ai[g].result)]
  /\ UNCHANGED <<ledgerVars, dashVars, apiKey, aiOps>>

\* the statement saveInsightsToDatabase awaits fails for a fault of the
\* database and writes nothing: its catch logs the error, what an earlier
\* deleteMany deleted stays deleted
SaveInsightsError(g) ==
  /\ ai[g].pc \in {"g_save", "g_insert"}
  /\ ai' = [ai EXCEPT ![g] = AiDone(ai[g], ai[g].result)]
  /\ UNCHANGED <<ledgerVars, dashVars, apiKey, insights, aiOps, clock>>

\* time passes until seven days after c, the createdAt of a row that was not
\* that old: the rows created at c or before are older than 7 days, those
\* created later are not, and no later reading of the time gives a
\* millisecond of a stored row
SevenDaysPass(c) ==
  /\ \E u \in Users : \E i \in 1..Len(insights[u]) :
        insights[u][i].at = c /\ ~insights[u][i].old
  /\ insights' = [u \in Users |->
                    [i \in 1..Len(insights[u]) |->
                       [insights[u][i] EXCEPT
                          !.old = @ \/ insights[u][i].at <= c]]]
  /\ clock' = IF MilliUsed(clock) \/ clock \in CreatedAts
              THEN clock + 1 ELSE clock
  /\ UNCHANGED <<ledgerVars, dashVars, apiKey, ai, aiOps>>

\* response.text() is there: parseAIResponse(aiResponse, userId)
ParseResponseText(g) ==
  /\ ai[g].pc = "g_call"
  /\ \E times \in ParseTimes(Readings(ResponseOf(ai[g].text))) :
       /\ ai' = [ai EXCEPT ![g] =
                   [ai[g] EXCEPT !.pc = "g_save",
                                 !.result = ParseAIText(ai[g].text, times)]]
       /\ clock' = IF times = <<>> THEN clock ELSE times[Len(times)]
  /\ UNCHANGED <<ledgerVars, dashVars, apiKey, insights, aiOps>>

\* the answer is sent: the request is over
AiReset(g) ==
  /\ ai[g].pc = "done"
  /\ ai' = [ai EXCEPT ![g] = IdleAi]
  /\ UNCHANGED <<ledgerVars, dashVars, apiKey, insights, aiOps, clock>>

\* ------------------------------------------------------------------------
\* routes/dashboard.ts
\* ------------------------------------------------------------------------
\* x + y of two numbers that are not negative
JsAdd(x, y) ==
  IF x.kind = "NaN" \/ y.kind = "NaN" THEN JsNaN
  ELSE IF x.kind = "Infinity" \/ y.kind = "Infinity" THEN JsInfinity
  ELSE JsNum(x.num * y.den + y.num * x.den, x.den * y.den)

\* x / y of two numbers that are not negative
JsDivide(x, y) ==
  IF x.kind = "NaN" \/ y.kind = "NaN" THEN JsNaN
  ELSE IF x.kind = "Infinity"
       THEN IF y.kind = "Infinity" THEN JsNaN ELSE JsInfinity
  ELSE IF y.kind = "Infinity" THEN JsNum(0, 1)
  ELSE IF y.num = 0 THEN IF x.num = 0 THEN JsNaN ELSE JsInfinity
  ELSE JsNum(x.num * y.den, x.den * y.num)

\* the rows of the user dated from lo to hi
TransactionsBetween(u, lo, hi) ==
  {t \in AllTransactions(u) : txns[t].date >= lo /\ txns[t].date <= hi}

RECURSIVE SumAmounts(_, _)
\* filter(type).reduce(sum + amount): the sum of the amounts of the rows S,
\* those of an expense as absolute values
SumAmounts(S, abs) ==
  IF S = {} THEN 0
  ELSE LET t == CHOOSE x \in S : TRUE
       IN (IF abs THEN Abs(txns[t].amount) ELSE txns[t].amount)
          + SumAmounts(S \ {t}, abs)

IncomeOf(S) == SumAmounts({t \in S : txns[t].type = "INCOME"}, FALSE)

\* as ExpensesOf, but summing the signed amounts
ExpensesOf_Signed(S) ==
  SumAmounts({t \in S : txns[t].type = "EXPENSE"}, FALSE)

ExpensesOf(S) == SumAmounts({t \in S : txns[t].type = "EXPENSE"}, TRUE)

RECURSIVE SumBalances(_)
SumBalances(S) ==
  IF S = {} THEN 0
  ELSE LET a == CHOOSE x \in S : TRUE IN balance[a] + SumBalances(S \ {a})

\* the budgets of the user that are active and whose period holds now
ActiveBudgets(u) ==
  {b \in BudgetIds : /\ budgets[b] # NoBudget
                     /\ budgets[b].userId = u
                     /\ budgets[b].isActive
                     /\ budgets[b].startDate <= Now
                     /\ budgets[b].endDate >= Now}

RECURSIVE SumUtilization(_)
\* reduce(sum + spent / limit, 0)
SumUtilization(S) ==
  IF S = {} THEN JsNum(0, 1)
  ELSE LET b == CHOOSE x \in S : TRUE
       IN JsAdd(SumUtilization(S \ {b}),
                JsDivide(JsNum(budgets[b].spent, 1),
                         JsNum(budgets[b].limit, 1)))

BudgetUtilization(S) ==
  IF Cardinality(S) > 0
  THEN JsDivide(SumUtilization(S), JsNum(Cardinality(S), 1))
  ELSE JsNum(0, 1)

\* GET /api/dashboard/stats: prisma.account.findMany({ where: { userId,
\* isActive: true } }) and totalBalance
StatsAccounts(u) ==
  /\ dash.pc = "idle"
  /\ LET mine == {a \in DOMAIN balance : AccountOwner[a] = u /\ isActive[a]}
     IN dash' = [IdleDash EXCEPT !.pc = "s_recent", !.kind = "stats",
                                 !.user = u,
                                 !.stats.totalBalance = SumBalances(mine),
                                 !.stats.accountsCount = Cardinality(mine)]
  /\ UNCHANGED <<ledgerVars, aiVars, budgets, isActive>>

\* the transactions of the last 30 days
StatsRecent ==
  /\ dash.pc = "s_recent"
  /\ LET recent == {t \in AllTransactions(dash.user) :
                      txns[t].date >= Last30Days}
     IN dash' = [dash EXCEPT
                   !.pc = "s_monthly",
                   !.stats.monthlyIncome = IncomeOf(recent),
                   !.stats.monthlyExpenses = ExpensesOf(recent),
                   !.stats.monthlyNet = IncomeOf(recent) - ExpensesOf(recent),
                   !.stats.transactionsLast30Days = Cardinality(recent)]
  /\ UNCHANGED <<ledgerVars, aiVars, budgets, isActive>>

\* the transactions of the current calendar month
StatsMonthly ==
  /\ dash.pc = "s_monthly"
  /\ LET monthly == TransactionsBetween(dash.user, StartOfCurrentMonth, Now)
     IN dash' = [dash EXCEPT
                   !.pc = "s_budgets",
                   !.stats.currentMonthIncome = IncomeOf(monthly),
                   !.stats.currentMonthExpenses = ExpensesOf(monthly),
                   !.stats.transactionsThisMonth = Cardinality(monthly)]
  /\ UNCHANGED <<ledgerVars, aiVars, budgets, isActive>>

\* prisma.budget.findMany, budgetUtilization and res.json
StatsBudgets ==
  /\ dash.pc = "s_budgets"
  /\ dash' = [dash EXCEPT
                !.pc = "done", !.status = 200,
                !.stats.budgetUtilization =
                   BudgetUtilization(ActiveBudgets(dash.user))]
  /\ UNCHANGED <<ledgerVars, aiVars, budgets, isActive>>

\* a query of the handler throws: its catch answers 500
StatsError ==
  /\ dash.pc \in {"s_recent", "s_monthly", "s_budgets"}
  /\ dash' = [IdleDash EXCEPT !.pc = "done", !.kind = "stats",
                              !.user = dash.user, !.status = 500]
  /\ UNCHANGED <<ledgerVars, aiVars, budgets, isActive>>

DashReset ==
  /\ dash.pc = "done"
  /\ dash' = IdleDash
  /\ UNCHANGED <<ledgerVars, aiVars, budgets, isActive>>

\* the sequences that list every element of S once
Orders(S) ==
  {f \in [1..Cardinality(S) -> S] :
     \A i, j \in 1..Cardinality(S) : i # j => f[i] # f[j]}

RECURSIVE GroupByCategory(_, _)
\* transactions.reduce(..., {}) and Object.values: one group per category, in
\* the order in which the categories are first met in ids[1..n]
GroupByCategory(ids, n) ==
  IF n = 0 THEN <<>>
  ELSE LET acc == GroupByCategory(ids, n - 1)
           row == txns[ids[n]]
           amount == Abs(row.amount)
           at == {i \in 1..Len(acc) : acc[i].category = row.category}
       IN IF at = {}
          THEN Append(acc, [category |-> row.category, amount |-> amount,
                            transactionCount |-> 1])
          ELSE LET i == CHOOSE k \in at : TRUE
               IN [acc EXCEPT ![i].amount = @ + amount,
                              ![i].transactionCount = @ + 1]

RECURSIVE TotalOf(_, _)
\* Object.values(categoryData).reduce(sum + cat.amount, 0)
TotalOf(groups, n) ==
  IF n = 0 THEN 0 ELSE TotalOf(groups, n - 1) + groups[n].amount

\* number of colours of the palette
PaletteSize == 10

\* as Percentage, but without the guard on totalAmount
Percentage_Unguarded(amount, totalAmount) ==
  JsDivide(JsNum(amount, 1), JsNum(totalAmount, 1))

\* totalAmount > 0 ? cat.amount / totalAmount : 0
Percentage(amount, totalAmount) ==
  IF totalAmount > 0 THEN JsDivide(JsNum(amount, 1), JsNum(totalAmount, 1))
  ELSE JsNum(0, 1)

\* .map((cat, index) => ({...cat, percentage, color: colors[index % 10]})),
\* the colour written as its index in the palette
WithPercentageAndColor(groups, totalAmount) ==
  [i \in 1..Len(groups) |->
     [category |-> groups[i].category, amount |-> groups[i].amount,
      transactionCount |-> groups[i].transactionCount,
      percentage |-> Percentage(groups[i].amount, totalAmount),
      color |-> (i - 1) % PaletteSize]]

RECURSIVE SortByAmountDesc(_)
\* .sort((a, b) => b.amount - a.amount): descending, equal amounts keep
\* their order
SortByAmountDesc(list) ==
  IF Len(list) <= 1 THEN list
  ELSE LET front == SortByAmountDesc(SubSeq(list, 1, Len(list) - 1))
           x == list[Len(list)]
           k == Cardinality({i \in 1..Len(front) :
                               front[i].amount >= x.amount})
       IN SubSeq(front, 1, k) \o <<x>> \o SubSeq(front, k + 1, Len(front))

\* GET /api/dashboard/analytics/categories: the expenses of the user dated
\* from startDate to endDate, as findMany without orderBy lists them
CategoryAnalytics(u, startDate, endDate) ==
  /\ dash.pc = "idle"
  /\ LET found == {t \in TransactionsBetween(u, startDate, endDate) :
                     txns[t].type = "EXPENSE"}
     IN \E ids \in Orders(found) :
          LET groups == GroupByCategory(ids, Len(ids))
              totalAmount == TotalOf(groups, Len(groups))
          IN dash' = [IdleDash EXCEPT
                        !.pc = "done", !.kind = "categories", !.user = u,
                        !.startDate = startDate, !.endDate = endDate,
                        !.categories = SortByAmountDesc(
                           WithPercentageAndColor(groups, totalAmount)),
                        !.totalAmount = totalAmount,
                        !.status = 200]
  /\ UNCHANGED <<ledgerVars, aiVars, budgets, isActive>>

\* prisma.transaction.findMany throws: the catch answers 500
CategoryAnalyticsError(u) ==
  /\ dash.pc = "idle"
  /\ dash' = [IdleDash EXCEPT !.pc = "done", !.kind = "categories",
                              !.user = u, !.status = 500]
  /\ UNCHANGED <<ledgerVars, aiVars, budgets, isActive>>

\* ------------------------------------------------------------------------
\* GET /api/transactions
\* ------------------------------------------------------------------------
\* parseInt(value) || fallback: a parameter that is not there and the number
\* 0 both give the fallback
QueryInt(v, fallback) == IF v = <<>> \/ v[1] = 0 THEN fallback ELSE v[1]

Page(q) == QueryInt(q.page, 1)
Limit(q) == QueryInt(q.limit, 20)
Skip(q) == (Page(q) - 1) * Limit(q)

\* where: { userId, type? }
ListFilter(u, q) ==
  {t \in AllTransactions(u) : q.type # Absent => txns[t].type = q.type}

\* the orders a database gives the values of the enum column type:
\* PostgreSQL the order in which the migration declares them (INCOME,
\* EXPENSE, TRANSFER), a database that keeps them as text that of the words
TypeRanks ==
  {[INCOME |-> 1, EXPENSE |-> 2, TRANSFER |-> 3],
   [EXPENSE |-> 1, INCOME |-> 2, TRANSFER |-> 3]}

\* the column of orderBy: amount, type or the name of the account for the
\* sortKey of that name, date for "date" and by default
SortValue(t, q, rank) ==
  CASE q.sortKey = "amount" -> txns[t].amount
    [] q.sortKey = "type" -> rank[txns[t].type]
    [] q.sortKey = "account" -> AccountNameRank[txns[t].accountId]
    [] OTHER -> txns[t].date

\* the capital letters and, at the same positions, their small letters
UpperCase == <<"A", "B", "C", "D", "E", "F", "G", "H", "I", "J", "K", "L", "M",
               "N", "O", "P", "Q", "R", "S", "T", "U", "V", "W", "X", "Y", "Z">>
LowerCase == <<"a", "b", "c", "d", "e", "f", "g", "h", "i", "j", "k", "l", "m",
               "n", "o", "p", "q", "r", "s", "t", "u", "v", "w", "x", "y", "z">>

\* String.prototype.toLowerCase: every capital letter of the string becomes
\* its small letter, every other character stays
ToLowerCase(w) ==
  [i \in 1..Len(w) |->
     IF \E k \in 1..Len(UpperCase) : UpperCase[k] = w[i]
     THEN LowerCase[CHOOSE k \in 1..Len(UpperCase) : UpperCase[k] = w[i]]
     ELSE w[i]]

\* the two sort orders prisma knows
Asc == <<"a", "s", "c">>
Desc == <<"d", "e", "s", "c">>

\* (sortDir || "desc").toLowerCase(): "desc" for a parameter that is not
\* there or is the empty string
SortDir(q) == ToLowerCase(IF q.sortDir = <<>> THEN Desc ELSE q.sortDir)

\* the arguments of findMany prisma does not accept: a sort order other than
\* asc and desc, a type filter outside the enum
QueryRejected(q) ==
  \/ SortDir(q) \notin {Asc, Desc}
  \/ q.type # Absent /\ q.type \notin Types

\* ORDER BY one column: the rows follow the column in the direction asked,
\* rows with equal values come in whatever order the database produces
InOrder(ids, q, rank) ==
  \A i, j \in 1..Len(ids) :
     i < j => IF SortDir(q) = Asc
              THEN SortValue(ids[i], q, rank) <= SortValue(ids[j], q, rank)
              ELSE SortValue(ids[i], q, rank) >= SortValue(ids[j], q, rank)

\* findMany({ where, orderBy, skip, take: limit }): the pages the database
\* can answer with
FindManyPage(u, q) ==
  {SubSeq(ids, Skip(q) + 1, Min(Skip(q) + Limit(q), Len(ids))) :
     ids \in {o \in Orders(ListFilter(u, q)) :
               \E rank \in TypeRanks : InOrder(o, q, rank)}}

\* Math.ceil(total / limit)
TotalPages(total, limit) == (total + limit - 1) \div limit

\* what the client keeps of an answered list request
Answer(d) == [user |-> d.user, query |-> d.query, items |-> d.items,
              total |-> d.total, totalPages |-> d.totalPages]

\* the handler up to Promise.all([findMany, count]), which sends both
\* queries; arguments prisma does not accept reject at once and the catch
\* answers 500.  The client sends the request on a free connection or right
\* after the answer to its last one
ListBegin(u, q) ==
  /\ dash.pc = "idle" \/ (dash.pc = "done" /\ dash.kind = "list")
  /\ dash' = [IdleDash EXCEPT
                !.pc = IF QueryRejected(q) THEN "done" ELSE "l_both",
                !.status = IF QueryRejected(q) THEN 500 ELSE 0,
                !.kind = "list", !.user = u, !.query = q,
                !.previous = IF dash.kind = "list" /\ dash.status = 200
                             THEN <<Answer(dash)>> ELSE <<>>]
  /\ UNCHANGED <<ledgerVars, aiVars, budgets, isActive>>

\* both queries are back: totalPages and res.json
ListRespond(d) ==
  [d EXCEPT !.pc = "done", !.status = 200,
            !.totalPages = TotalPages(d.total, Limit(d.query))]

\* the database answers findMany, before or after it answers count
ListFindMany ==
  /\ dash.pc \in {"l_both", "l_rows"}
  /\ \E items \in FindManyPage(dash.user, dash.query) :
       dash' = IF dash.pc = "l_both"
               THEN [dash EXCEPT !.pc = "l_count", !.items = items]
               ELSE ListRespond([dash EXCEPT !.items = items])
  /\ UNCHANGED <<ledgerVars, aiVars, budgets, isActive>>

\* the database answers prisma.transaction.count({ where })
ListCount ==
  /\ dash.pc \in {"l_both", "l_count"}
  /\ LET total == Cardinality(ListFilter(dash.user, dash.query))
     IN dash' = IF dash.pc = "l_both"
                THEN [dash EXCEPT !.pc = "l_rows", !.total = total]
                ELSE ListRespond([dash EXCEPT !.total = total])
  /\ UNCHANGED <<ledgerVars, aiVars, budgets, isActive>>

\* a query of the handler throws: its catch answers 500
ListError ==
  /\ dash.pc \in {"l_both", "l_rows", "l_count"}
  /\ dash' = [IdleDash EXCEPT !.pc = "done", !.kind = "list",
                              !.user = dash.user, !.query = dash.query,
                              !.status = 500]
  /\ UNCHANGED <<ledgerVars, aiVars, budgets, isActive>>

\* ------------------------------------------------------------------------
\* Specifications
\* ------------------------------------------------------------------------
Opt(S) == {<<>>} \cup {<<v>> : v \in S}

\* the steps of the requests on connection r, their bodies drawn from the
\* sets of in
CreateStep(r, in) ==
  \/ \E u \in in.users, a \in in.accounts, v \in in.amounts, ty \in in.types,
        c \in in.categories, d \in in.dates :
       CreateBegin(r, in.newIds, u, a, v, ty, c, d)
  \/ CreateInsert(r)
  \/ CreateInsertFail(r)
  \/ CreateIncrement(r)
  \/ CreateIncrementFail(r)

UpdateStep(r, in) ==
  \/ \E u \in in.users, id \in in.ids, v \in Opt(in.amounts),
        ty \in in.types \cup {Absent}, a \in in.accounts \cup {Absent},
        c \in in.newCategories \cup {Absent}, d \in Opt(in.newDates) :
       UpdateBegin(r, u, id, v, ty, a, c, d)
  \/ UpdateRevert(r)
  \/ UpdateApply(r)
  \/ UpdateWrite(r)
  \/ UpdateFail(r)

DeleteStep(r, in) ==
  \/ \E u \in in.users, id \in in.ids : DeleteBegin(r, u, id)
  \/ DeleteRevert(r)
  \/ DeleteRow(r)
  \/ DeleteFail(r)

AnswerStep(r) ==
  \/ InvalidateUserCache(r)
  \/ Respond(r)
  \/ Reset(r)

Step(r, in) ==
  \/ CreateStep(r, in)
  \/ UpdateStep(r, in)
  \/ DeleteStep(r, in)
  \/ AnswerStep(r)

\* requests of both users, one after the other on a single connection
SeqInputs == [users |-> Users, accounts |-> AccountIds, amounts |-> Amounts,
              types |-> Types, newIds |-> RequestIds, ids |-> RequestIds,
              categories |-> {"FOOD_DINING"}, dates |-> {RecentDate},
              newCategories |-> {}, newDates |-> {}]

NextSeq == Step("r1", SeqInputs)

SpecSeq == Init /\ [][NextSeq]_vars

\* two sessions of one user running their requests concurrently
ConcInputs == [users |-> {"u1"}, accounts |-> {"a1", "a2"},
               amounts |-> Amounts, types |-> {"INCOME", "EXPENSE"},
               newIds |-> RequestIds, ids |-> {"t1"},
               categories |-> {"FOOD_DINING"}, dates |-> {RecentDate},
               newCategories |-> {}, newDates |-> {}]

Next == \E r \in Reqs : Step(r, ConcInputs)

Spec == Init /\ [][Next]_vars

\* two sessions of one user updating and deleting the seeded transaction
NextRace ==
  \E r \in Reqs :
    \/ UpdateStep(r, ConcInputs)
    \/ DeleteStep(r, ConcInputs)
    \/ AnswerStep(r)

SpecRace == Init /\ [][NextRace]_vars

\* requests of one user whose bodies pass or fail the schema: a zero amount,
\* categories of either kind, a category and a type outside the enums
ValidationInputs ==
  [users |-> {"u1"}, accounts |-> {"a1"}, amounts |-> {0, 30},
   types |-> {"INCOME", "EXPENSE", BadType}, newIds |-> RequestIds,
   ids |-> {"t1"}, categories |-> {"FOOD_DINING", "SALARY", BadCategory},
   dates |-> {RecentDate}, newCategories |-> {"SALARY", BadCategory},
   newDates |-> {OldDate}]

NextValidation == Step("r1", ValidationInputs)

SpecValidation == Init /\ [][NextValidation]_vars

\* the transaction requests of user u1 on the seeded checking account and on
\* the account u1 creates
AccountInputs ==
  [users |-> {"u1"}, accounts |-> {"a1", NewAccountOf["u1"]},
   amounts |-> Amounts, types |-> {"INCOME", "EXPENSE"},
   newIds |-> RequestIds, ids |-> {"t1"}, categories |-> {"FOOD_DINING"},
   dates |-> {RecentDate}, newCategories |-> {}, newDates |-> {}]

\* the steps of POST /api/accounts on connection r
AccountStep(r) ==
  \/ \E u \in Users, named \in BOOLEAN, bal \in AccountBalances :
       AccountCreateBegin(r, u, named, bal)
  \/ AccountCreate(r)
  \/ AccountCreateFail(r)

\* the steps of a call of generateSampleData on connection r
SampleStep(r) ==
  \/ \E u \in Users \cup {NewUser} : GenerateSampleData(r, u)
  \/ SampleCreateMany(r)
  \/ SampleUpdateChecking(r)
  \/ SampleUpdateSavings(r)
  \/ SampleFail(r)

\* every writer of the accounts and the transactions: the transaction and
\* account requests on one connection, a first OAuth login, and calls of
\* generateSampleData that run beside them
NextAccounts ==
  \/ Step("r1", AccountInputs)
  \/ AccountStep("r1")
  \/ OAuthCreateAccounts
  \/ SampleStep("r2")
  \/ Reset("r2")

SpecAccounts == Init /\ [][NextAccounts]_vars

\* one request and the Redis commands of other callers of RedisService
CacheInputs == [users |-> {"u1"}, accounts |-> {"a1"}, amounts |-> Amounts,
                types |-> {"EXPENSE"}, newIds |-> RequestIds,
                ids |-> RequestIds,
                categories |-> {"FOOD_DINING"}, dates |-> {RecentDate},
                newCategories |-> {}, newDates |-> {}]

NextCache ==
  \/ Step("r1", CacheInputs)
  \/ \E u \in Users, data \in CacheData : CacheDashboardData(u, data)
  \/ \E u \in Users : CacheAIInsights(u, "object")
  \/ \E u \in Users : CacheTransactionHistory(u)
  \/ \E u \in Users, k \in CacheKeys : Expire(u, k)

SpecCache == Init /\ [][NextCache]_vars

\* one request of u1 at a time and calls of the cache methods for u1, over a
\* cache that holds every key of both users, each with one of the strings a
\* key can hold; any Redis command may fail
InitCacheFaults ==
  /\ balance = [a \in SeededAccounts |->
                  OpeningBalance[a] + SumEffects(SeededTxns, a, TxnIds)]
  /\ txns = SeededTxns
  /\ usedIds = {t \in TxnIds : SeededTxns[t] # NoTxn}
  /\ \E text \in StoredTexts :
       cache = [u \in Users |->
                  {[key |-> k, text |-> text] : k \in CacheKeys}]
  /\ req = [r \in Reqs |-> IdleReq]
  /\ ops = 0
  /\ apiKey = TRUE
  /\ insights = [u \in Users |-> <<>>]
  /\ ai = [g \in AiReqs |-> IdleAi]
  /\ aiOps = 0
  /\ clock = 1
  /\ budgets = SeededBudgets
  /\ isActive = [a \in Accounts |-> TRUE]
  /\ dash = IdleDash

NextCacheFaults ==
  \/ Step("r1", CacheInputs)
  \/ \E k \in CacheKeys : GetCachedData("u1", k)
  \/ \E k \in CacheKeys : GetCachedDataError("u1", k)
  \/ \E k \in CacheKeys : CacheWriteError("u1", k)
  \/ \E data \in CacheData : CacheDashboardData("u1", data)
  \/ DashReset

SpecCacheFaults == InitCacheFaults /\ [][NextCacheFaults]_vars

\* the seeded ledger and an expense of 20 of user u2 dated before
\* threeMonthsAgo
SeededAndOld ==
  [SeededTxns EXCEPT !["t2"] =
     [userId |-> "u2", accountId |-> "a3", amount |-> 20, type |-> "EXPENSE",
      category |-> "SHOPPING", date |-> OldDate]]

\* the insight flow over the seeded ledger, where u2 has no transaction, or
\* over the ledger where u2 has an old one; with or without an API key
InitAI ==
  /\ txns \in {SeededTxns, SeededAndOld}
  /\ balance = [a \in SeededAccounts |->
                  OpeningBalance[a] + SumEffects(txns, a, TxnIds)]
  /\ usedIds = {t \in TxnIds : txns[t] # NoTxn}
  /\ cache = [u \in Users |-> {}]
  /\ req = [r \in Reqs |-> IdleReq]
  /\ ops = 0
  /\ apiKey \in BOOLEAN
  /\ insights = [u \in Users |-> <<>>]
  /\ ai = [g \in AiReqs |-> IdleAi]
  /\ aiOps = 0
  /\ clock = 1
  /\ budgets = SeededBudgets
  /\ isActive = [a \in Accounts |-> TRUE]
  /\ dash = IdleDash

NextAI ==
  \/ \E g \in AiReqs, u \in Users : InsightsGet(g, u)
  \/ \E g \in AiReqs, u \in Users : InsightsGetDbError(g, u)
  \/ \E g \in AiReqs, u \in Users : Analyze(g, u)
  \/ \E g \in AiReqs : GetUserFinancialData(g)
  \/ \E g \in AiReqs : GetUserFinancialDataError(g)
  \/ \E g \in AiReqs, resp \in Responses(FlowElems) : GenerateContent(g, resp)
  \/ \E g \in AiReqs : SaveInsightsDeleteMany(g)
  \/ \E g \in AiReqs : SaveInsightsToDatabase(g)
  \/ \E g \in AiReqs : SaveInsightsError(g)
  \/ \E c \in CreatedAts : SevenDaysPass(c)
  \/ \E g \in AiReqs : AiReset(g)

SpecAI == InitAI /\ [][NextAI]_vars

\* the insight flow while every statement sent to the database succeeds
NextAIHealthy ==
  \/ \E g \in AiReqs, u \in Users : InsightsGet(g, u)
  \/ \E g \in AiReqs, u \in Users : Analyze(g, u)
  \/ \E g \in AiReqs : GetUserFinancialData(g)
  \/ \E g \in AiReqs, resp \in Responses(FlowElems) : GenerateContent(g, resp)
  \/ \E g \in AiReqs : SaveInsightsDeleteMany(g)
  \/ \E g \in AiReqs : SaveInsightsToDatabase(g)
  \/ \E c \in CreatedAts : SevenDaysPass(c)
  \/ \E g \in AiReqs : AiReset(g)

SpecAIHealthy == InitAI /\ [][NextAIHealthy]_vars

\* the rows a budgets table can hold for user u1: limit and spent of zero or
\* more, active or not, for a period that is over or that holds now
BudgetRows ==
  [userId : {"u1"}, limit : {0, 400}, spent : {0, 100}, isActive : BOOLEAN,
   startDate : {10, StartOfCurrentMonth}, endDate : {40, Now + 20}]

\* GET /api/dashboard/stats over the seeded ledger and every budgets table
InitStats ==
  /\ balance = [a \in SeededAccounts |->
                  OpeningBalance[a] + SumEffects(SeededTxns, a, TxnIds)]
  /\ txns = SeededTxns
  /\ usedIds = {t \in TxnIds : SeededTxns[t] # NoTxn}
  /\ cache = [u \in Users |-> {}]
  /\ req = [r \in Reqs |-> IdleReq]
  /\ ops = 0
  /\ apiKey = TRUE
  /\ insights = [u \in Users |-> <<>>]
  /\ ai = [g \in AiReqs |-> IdleAi]
  /\ aiOps = 0
  /\ clock = 1
  /\ budgets \in [BudgetIds -> BudgetRows \cup {NoBudget}]
  /\ isActive = [a \in Accounts |-> TRUE]
  /\ dash = IdleDash

NextStats ==
  \/ \E u \in Users : StatsAccounts(u)
  \/ StatsRecent
  \/ StatsMonthly
  \/ StatsBudgets
  \/ StatsError
  \/ DashReset

SpecStats == InitStats /\ [][NextStats]_vars

\* the rows the create and update requests of user u1 can leave on account
\* a1: expenses and incomes of two categories, of last month or of this one
LedgerRows ==
  [userId : {"u1"}, accountId : {"a1"}, amount : {-20, 0, 30},
   type : {"EXPENSE", "INCOME"}, category : {"FOOD_DINING", "SHOPPING"},
   date : {LastMonthDate, RecentDate}]

\* the date ranges of the analytics requests: the default, from the first of
\* the month to now, and one that starts before last month
DateRanges == {<<StartOfCurrentMonth, Now>>, <<ThreeMonthsAgo, Now>>}

\* GET /api/dashboard/analytics/categories over every ledger of up to three
\* such rows
InitCategories ==
  /\ txns \in [TxnIds -> LedgerRows \cup {NoTxn}]
  /\ balance = [a \in SeededAccounts |->
                  OpeningBalance[a] + SumEffects(txns, a, TxnIds)]
  /\ usedIds = {t \in TxnIds : txns[t] # NoTxn}
  /\ cache = [u \in Users |-> {}]
  /\ req = [r \in Reqs |-> IdleReq]
  /\ ops = 0
  /\ apiKey = TRUE
  /\ insights = [u \in Users |-> <<>>]
  /\ ai = [g \in AiReqs |-> IdleAi]
  /\ aiOps = 0
  /\ clock = 1
  /\ budgets = SeededBudgets
  /\ isActive = [a \in Accounts |-> TRUE]
  /\ dash = IdleDash

NextCategories ==
  \/ \E range \in DateRanges : CategoryAnalytics("u1", range[1], range[2])
  \/ CategoryAnalyticsError("u1")
  \/ DashReset

SpecCategories == InitCategories /\ [][NextCategories]_vars

\* the rows the statistics are computed from: an income and expenses of
\* user u1, dated before the last 30 days, within them but last month, or in
\* the current month
StatsRows ==
  [userId : {"u1"}, accountId : {"a1"}, amount : {3000, -1200, -300},
   type : {"INCOME", "EXPENSE"}, category : {"OTHER_EXPENSE"},
   date : {OldDate, LastMonthDate, RecentDate}]

\* GET /api/dashboard/stats over every ledger of up to three such rows, the
\* accounts of u1 holding the balances their history has left, each of them
\* active or not (the column accounts.isActive, which no route writes)
InitLedgerStats ==
  /\ txns \in [TxnIds -> StatsRows \cup {NoTxn}]
  /\ balance \in {b \in [SeededAccounts ->
                           {0, 50, 130, 1000, OpeningBalance["a3"]}] :
                    /\ b["a1"] \in {130, 1000}
                    /\ b["a2"] \in {0, 50}
                    /\ b["a3"] = OpeningBalance["a3"]}
  /\ usedIds = {t \in TxnIds : txns[t] # NoTxn}
  /\ cache = [u \in Users |-> {}]
  /\ req = [r \in Reqs |-> IdleReq]
  /\ ops = 0
  /\ apiKey = TRUE
  /\ insights = [u \in Users |-> <<>>]
  /\ ai = [g \in AiReqs |-> IdleAi]
  /\ aiOps = 0
  /\ clock = 1
  /\ budgets = SeededBudgets
  /\ isActive \in {f \in [Accounts -> BOOLEAN] :
                     \A a \in Accounts \ {"a1", "a2"} : f[a]}
  /\ dash = IdleDash

SpecLedgerStats == InitLedgerStats /\ [][NextStats]_vars

\* the rows of user u1 the list requests read: expenses of two amounts and
\* two dates on one account and an income on another, so that rows can tie
\* on any sort column
ListRows ==
  [userId : {"u1"}, accountId : {"a1"}, amount : {-20, 30},
   type : {"EXPENSE"}, category : {"FOOD_DINING"},
   date : {LastMonthDate, RecentDate}]
  \cup {[userId |-> "u1", accountId |-> "a2", amount |-> 30,
          type |-> "INCOME", category |-> "SALARY", date |-> RecentDate]}

\* the query strings of the list requests
ListQueries ==
  {NoQuery,
   [NoQuery EXCEPT !.limit = <<1>>],
   [NoQuery EXCEPT !.page = <<2>>, !.limit = <<1>>],
   [NoQuery EXCEPT !.sortKey = "amount", !.sortDir = Asc],
   [NoQuery EXCEPT !.sortKey = "type", !.sortDir = <<"D", "e", "s", "c">>],
   [NoQuery EXCEPT !.sortKey = "account", !.sortDir = <<"A", "S", "C">>],
   [NoQuery EXCEPT !.sortDir = <<"u", "p">>],
   [NoQuery EXCEPT !.page = <<2>>, !.limit = <<1>>, !.sortKey = "amount",
                   !.type = "EXPENSE"]}

\* the requests of user u2, who creates and deletes a transaction
\* of their own account
OtherUserInputs ==
  [users |-> {"u2"}, accounts |-> {"a3"}, amounts |-> {30},
   types |-> {"EXPENSE"}, newIds |-> {"t3"}, ids |-> {"t3"},
   categories |-> {"FOOD_DINING"}, dates |-> {RecentDate},
   newCategories |-> {}, newDates |-> {}]

\* list requests of u1 over every ledger of one or two such rows, while u2
\* changes their own data
InitList ==
  /\ txns \in {l \in [TxnIds -> ListRows \cup {NoTxn}] :
                 l["t1"] # NoTxn /\ l["t3"] = NoTxn}
  /\ balance = [a \in SeededAccounts |->
                  OpeningBalance[a] + SumEffects(txns, a, TxnIds)]
  /\ usedIds = {t \in TxnIds : txns[t] # NoTxn}
  /\ cache = [u \in Users |-> {}]
  /\ req = [r \in Reqs |-> IdleReq]
  /\ ops = 0
  /\ apiKey = TRUE
  /\ insights = [u \in Users |-> <<>>]
  /\ ai = [g \in AiReqs |-> IdleAi]
  /\ aiOps = 0
  /\ clock = 1
  /\ budgets = SeededBudgets
  /\ isActive = [a \in Accounts |-> TRUE]
  /\ dash = IdleDash

NextList ==
  \/ \E q \in ListQueries : ListBegin("u1", q)
  \/ ListFindMany
  \/ ListCount
  \/ ListError
  \/ DashReset
  \/ CreateStep("r1", OtherUserInputs)
  \/ DeleteStep("r1", OtherUserInputs)
  \/ AnswerStep("r1")

SpecList == InitList /\ [][NextList]_vars

\* parseAIResponse on every response text of up to MaxTextLen tokens: the
\* flow of POST /api/ai/analyze of u1 from the moment the answer is there
InitParse ==
  /\ balance = [a \in SeededAccounts |->
                  OpeningBalance[a] + SumEffects(SeededTxns, a, TxnIds)]
  /\ txns = SeededTxns
  /\ usedIds = {t \in TxnIds : SeededTxns[t] # NoTxn}
  /\ cache = [u \in Users |-> {}]
  /\ req = [r \in Reqs |-> IdleReq]
  /\ ops = 0
  /\ apiKey = TRUE
  /\ insights = [u \in Users |-> <<>>]
  /\ \E text \in Texts :
       ai = [g \in AiReqs |->
               IF g = "g1"
               THEN [IdleAi EXCEPT !.pc = "g_call", !.kind = "analyze",
                                   !.user = "u1", !.gen = TRUE, !.text = text]
               ELSE IdleAi]
  /\ aiOps = 1
  /\ clock = 1
  /\ budgets = SeededBudgets
  /\ isActive = [a \in Accounts |-> TRUE]
  /\ dash = IdleDash

NextParse ==
  \/ ParseResponseText("g1")
  \/ SaveInsightsDeleteMany("g1")
  \/ SaveInsightsToDatabase("g1")
  \/ SaveInsightsError("g1")

SpecParse == InitParse /\ [][NextParse]_vars

\* the insight flow with the progress the process itself guarantees: an
\* awaited database call returns or throws.  Nothing bounds the await of
\* model.generateContent, so its answer is not among the fair steps
FairAI ==
  \A g \in AiReqs :
    /\ WF_vars(GetUserFinancialData(g) \/ GetUserFinancialDataError(g))
    /\ WF_vars(SaveInsightsDeleteMany(g) \/ SaveInsightsToDatabase(g)
                 \/ SaveInsightsError(g))

SpecAILive == InitAI /\ [][NextAI]_vars /\ FairAI

\* ------------------------------------------------------------------------
\* Properties
\* ------------------------------------------------------------------------
\* how far the balance of a is from its opening balance plus the effects of
\* the transactions stored against it
Drift(a) == balance[a] - OpeningBalance[a] - SumEffects(txns, a, TxnIds)

Quiescent == \A r \in Reqs : req[r].pc \in {"idle", "done"}

\* C1: after every completed request of a sequence of non-overlapping
\* create, update and delete requests, each account's balance is its opening
\* balance plus the sum of the effects of the surviving transactions
C1_BalanceAfterEveryRequest ==
  Quiescent => \A a \in SeededAccounts : Drift(a) = 0

\* C2: once all concurrently running update and delete requests have
\* finished, each account's balance is its opening balance plus the sum of the
\* effects of the surviving transactions (no reversal came from a version of
\* the transaction that another request had replaced or removed)
C2_BalanceAfterConcurrentRequests ==
  Quiescent => \A a \in SeededAccounts : Drift(a) = 0

\* C3: create is atomic: no reachable state has a transaction row whose
\* effect is missing from its account's balance, or a balance holding the
\* effect of a row that does not exist
C3_CreateAtomic == \A a \in SeededAccounts : Drift(a) = 0

\* a step of the request on connection r
StepOf(r) == req'[r] # req[r]

\* the step that commits the database transaction of an update or a delete
Commits(r) == req[r].pc \in TxPcs /\ req'[r].pc = "inval"

LedgerUnchanged == balance' = balance /\ txns' = txns

\* C4: an update that fails after its reversal was applied leaves every
\* balance and every row as before the request and answers with an error: no
\* step of an update other than its commit changes a balance or a row, and an
\* update that ends inside its database transaction answers 500
C4_UpdateRollback ==
  [][\A r \in Reqs :
       (req[r].kind = "update" /\ StepOf(r)) =>
         /\ ~Commits(r) => LedgerUnchanged
         /\ (req[r].pc \in TxPcs /\ req'[r].pc = "done") =>
              req'[r].status = 500]_vars

\* an update has answered 500 after the reversal, or the reversal and the new
\* effect, had been applied inside its database transaction
C4_Witness ==
  \E r \in Reqs :
    /\ req[r].kind = "update" /\ req[r].pc = "done" /\ req[r].status = 500
    /\ \E a \in Accounts : req[r].pend[a] # 0
    /\ balance["a1"] = 100 /\ txns = SeededTxns

\* the body of update q names another account of the caller than the one
\* its transaction is stored with, and no amount and no type other than the
\* stored ones
MovesOnly(q) ==
  /\ q.kind = "update" /\ txns[q.id] # NoTxn
  /\ q.accountId # Absent /\ q.accountId # txns[q.id].accountId
  /\ q.amount # <<>> => q.amount[1] = txns[q.id].amount
  /\ q.type # Absent => q.type = txns[q.id].type
  /\ AccountFound(q.accountId, q.user)

\* C5: an update that changes only the accountId, from A to B, takes the
\* effect of the transaction as stored from A and adds it to B in one step:
\* its commit changes A by -delta and B by +delta and no other balance, and
\* no other step of the request changes a balance
C5_MoveBetweenAccounts ==
  [][\A r \in Reqs :
       (MovesOnly(req[r]) /\ StepOf(r)) =>
         LET A == txns[req[r].id].accountId
             B == req[r].accountId
             d == BalanceChange(txns[req[r].id].type, txns[req[r].id].amount)
         IN IF Commits(r)
            THEN /\ balance'[A] = balance[A] - d
                 /\ balance'[B] = balance[B] + d
                 /\ balance'[A] + balance'[B] = balance[A] + balance[B]
                 /\ \A a \in DOMAIN balance \ {A, B} : balance'[a] = balance[a]
                 /\ txns'[req[r].id].accountId = B
            ELSE balance' = balance]_vars

\* the update on connection r names an account that is not the caller's
NamesForeignAccount(q) ==
  q.accountId # Absent /\ ~AccountFound(q.accountId, q.user)

\* C6: an update whose new accountId is not an account of the caller is
\* answered with 404 (500 when the database fails) and changes no balance and
\* no row
C6_UpdateForeignAccountNotFound ==
  [][\A r \in Reqs :
       (req[r].kind = "update" /\ NamesForeignAccount(req[r]) /\ StepOf(r)) =>
         /\ LedgerUnchanged
         /\ req'[r].pc = "done" => req'[r].status \in {404, 500}]_vars

\* the user whose request takes the step on connection r
Caller(r) == IF req[r].pc = "idle" THEN req'[r].user ELSE req[r].user

\* C7: the requests of a user change no balance and no row of another user,
\* leave no transaction attached to an account of another user, and are
\* answered with 404 (500 when the database fails) when they name an account
\* of another user
C7_CrossUserIsolation ==
  [][\A r \in Reqs :
       StepOf(r) =>
         /\ \A a \in DOMAIN balance :
              AccountOwner[a] # Caller(r) => balance'[a] = balance[a]
         /\ \A t \in TxnIds :
              (txns[t] # NoTxn /\ txns[t].userId # Caller(r)) =>
                txns'[t] = txns[t]
         /\ \A t \in TxnIds :
              txns'[t] # NoTxn =>
                AccountOwner[txns'[t].accountId] = txns'[t].userId
         /\ (req'[r].pc = "done" /\ req'[r].accountId \in Accounts
             /\ AccountOwner[req'[r].accountId] # req'[r].user) =>
              req'[r].status \in {404, 500}]_vars

C9_CacheEmptyOnSuccess ==
  [][\A r \in Reqs :
       /\ (req[r].pc = "inval" /\ req'[r].pc = "respond") =>
            cache'[req[r].user] = {}
       /\ (req[r].pc = "respond" /\ req'[r].pc = "done") =>
            cache[req[r].user] = {}]_vars

\* C10: generateFinancialInsights, and with it GET /api/ai/insights and
\* POST /api/ai/analyze, answers a list of at least one insight
C10_InsightsNeverEmpty ==
  \A g \in AiReqs :
    ai[g].pc = "done" => (ai[g].status = 200 /\ Len(ai[g].result) >= 1)

\* C11: every call of the insight generation flow returns, also when the
\* text-generation service never answers: the flow does not stay for ever at
\* the external call
C11_GenerationReturns ==
  \A g \in AiReqs :
    (ai[g].pc \in {"g_data", "g_call", "g_save", "g_insert"})
      ~> (ai[g].pc = "done")

\* C12: a create request whose amount is zero is rejected with 400 before any
\* write: no create request that has passed validation carries amount zero
C12_ZeroAmountRejected ==
  \A r \in Reqs :
    (req[r].kind = "create" /\ req[r].pc \in {"c_insert", "c_incr"}) =>
      req[r].amount[1] # 0

\* TRANSACTION_CATEGORIES of the transaction form: the categories offered for
\* each type
TRANSACTION_CATEGORIES ==
  [INCOME |-> {"SALARY", "FREELANCE", "BUSINESS_INCOME", "RENTAL_INCOME",
               "DIVIDEND_INCOME", "OTHER_INCOME"},
   EXPENSE |-> {"FOOD_DINING", "TRANSPORTATION", "SHOPPING", "ENTERTAINMENT",
                "BILLS_UTILITIES", "HEALTHCARE", "TRAVEL", "EDUCATION",
                "PERSONAL_CARE", "GIFTS_DONATIONS", "OTHER_EXPENSE"},
   TRANSFER |-> {"ACCOUNT_TRANSFER"}]

\* the category is in the list of its type (BUSINESS and INVESTMENTS are in
\* no list, a type outside the enum has none)
CategoryFitsType(type, category) ==
  /\ type \in DOMAIN TRANSACTION_CATEGORIES
  /\ category \in TRANSACTION_CATEGORIES[type]

\* C13: a create or update whose category does not fit its type is rejected
\* and changes no state: no request past validation and no stored
\* transaction pairs a type with a category outside the list of that type
C13_CategoryFitsType ==
  /\ \A r \in Reqs :
       (req[r].kind = "create" /\ req[r].pc \in {"c_insert", "c_incr"}) =>
         CategoryFitsType(req[r].type, req[r].category)
  /\ \A t \in TxnIds :
       txns[t] # NoTxn => CategoryFitsType(txns[t].type, txns[t].category)

\* C14: the effect of every stored transaction on its account has the sign
\* of its type: positive for INCOME, negative for EXPENSE
C14_EffectSignFollowsType ==
  \A t \in DOMAIN txns :
    txns[t] # NoTxn =>
      LET effect == BalanceChange(txns[t].type, txns[t].amount)
      IN /\ txns[t].type = "INCOME" => effect > 0
         /\ txns[t].type = "EXPENSE" => effect < 0

\* the text holds no "[" with a "]" after it
NoArrayIn(text) ==
  ~ \E i, j \in 1..Len(text) : i < j /\ text[i] = "[" /\ text[j] = "]"

\* C16: when the response text holds no JSON array, or the located array
\* text fails to parse, parseAIResponse returns exactly the one generic
\* insight (SPENDING_PATTERN, 0.8) and the flow goes on with it: the caller
\* gets it with status 200
C16_ParseFallback ==
  \A g \in AiReqs :
    (ai[g].pc \in {"g_save", "g_insert", "done"}
     /\ (NoArrayIn(ai[g].text) \/ ~IsJson(JsonMatch(ai[g].text)))) =>
      /\ Len(ai[g].result) = 1
      /\ \E now \in 1..clock : ai[g].result = <<GenericInsight(now)>>
      /\ ai[g].result[1].type = "SPENDING_PATTERN"
      /\ ai[g].result[1].confidence = 80
      /\ ai[g].pc = "done" => ai[g].status = 200

\* a text whose brackets enclose prose, answered with the generic insight
C16_Witness ==
  \E g \in AiReqs :
    /\ ai[g].pc = "done" /\ ai[g].text = <<"w", "[", "w", "]">>
    /\ \E now \in 1..clock : ai[g].result = <<GenericInsight(now)>>

\* C15: generateFinancialInsights for a user without any
\* transaction makes no external call, stores nothing and returns exactly the
\* welcome insight (SPENDING_PATTERN, 1.0)
C15_WelcomeWhenNoTransactions ==
  \A g \in AiReqs :
    (ai[g].gen /\ AllTransactions(ai[g].user) = {}) =>
      /\ ai[g].pc \notin {"g_call", "g_save", "g_insert"}
      /\ insights[ai[g].user] = <<>>
      /\ ai[g].pc = "done" =>
           (ai[g].result = <<WelcomeInsight>>
            /\ ai[g].result[1].type = "SPENDING_PATTERN"
            /\ ai[g].result[1].confidence = 100)

\* C17: a GET of a user with stored relevant insights serves them and does
\* not start the generation flow; a GET of a user without any starts it; of
\* the requests of a user with stored insights only POST /api/ai/analyze
\* starts it
C17_GetGeneratesOnlyWhenEmpty ==
  [][\A g \in AiReqs :
       (ai[g].pc = "idle" /\ ai'[g].pc # "idle") =>
         IF insights[ai'[g].user] # <<>>
         THEN /\ ai'[g].gen <=> ai'[g].kind = "analyze"
              /\ ai'[g].kind = "get" =>
                   /\ ai'[g].pc = "done"
                   /\ ai'[g].result \in GetUserInsights(ai'[g].user)
         ELSE ai'[g].gen]_vars

\* C18: budgetUtilization of the dashboard statistics is a defined finite
\* number, also when an active budget has limit 0, and it is 0 when the user
\* has no currently active budget
C18_BudgetUtilizationFinite ==
  (dash.pc = "done" /\ dash.kind = "stats" /\ dash.status = 200) =>
    /\ dash.stats.budgetUtilization.kind = "finite"
    /\ ActiveBudgets(dash.user) = {} => dash.stats.budgetUtilization.num = 0

\* the expenses a category breakdown request of the user is about
ExpensesInRange(u, lo, hi) ==
  {t \in TransactionsBetween(u, lo, hi) : txns[t].type = "EXPENSE"}

RECURSIVE SumPercentages(_, _)
SumPercentages(list, n) ==
  IF n = 0 THEN JsNum(0, 1)
  ELSE JsAdd(SumPercentages(list, n - 1), list[n].percentage)

\* C19: in every category breakdown the amounts of the categories sum to
\* totalAmount, which is the sum of the absolute amounts of the expenses in
\* range; each percentage is amount / totalAmount and the percentages sum to
\* 1 when totalAmount > 0; every percentage is 0, and none is NaN or
\* Infinity, when totalAmount is 0
C19_CategoryPercentages ==
  (dash.pc = "done" /\ dash.kind = "categories" /\ dash.status = 200) =>
    LET cats == dash.categories
        total == dash.totalAmount
        sum == SumPercentages(cats, Len(cats))
    IN /\ TotalOf(cats, Len(cats)) = total
       /\ total = ExpensesOf(ExpensesInRange(dash.user, dash.startDate,
                                             dash.endDate))
       /\ \A i \in 1..Len(cats) :
            /\ cats[i].percentage.kind = "finite"
            /\ IF total > 0
               THEN cats[i].percentage.num * total
                      = cats[i].amount * cats[i].percentage.den
               ELSE cats[i].percentage.num = 0
       /\ sum.kind = "finite"
       /\ IF total > 0 THEN sum.num = sum.den ELSE sum.num = 0

\* a breakdown of two categories with amounts 30 and 20 of a total of 50
C19_Witness ==
  /\ dash.pc = "done" /\ dash.kind = "categories" /\ dash.status = 200
  /\ Len(dash.categories) = 2 /\ dash.totalAmount = 50
  /\ dash.categories[1].amount = 30 /\ dash.categories[2].amount = 20

\* C20: the categories of a breakdown are in descending order of amount and
\* the category at position i (from 0) carries palette colour i mod 10
C20_SortedAndColouredByPosition ==
  (dash.pc = "done" /\ dash.kind = "categories" /\ dash.status = 200) =>
    LET cats == dash.categories
    IN /\ \A i, j \in 1..Len(cats) :
            i < j => cats[i].amount >= cats[j].amount
       /\ \A i \in 1..Len(cats) : cats[i].color = (i - 1) % PaletteSize

\* C21: two list requests of one user with the same query, with no change to
\* that user's data between them, get the same items in the same order, the
\* same total and the same totalPages
C21_SameListSameAnswer ==
  (/\ dash.pc = "done" /\ dash.kind = "list" /\ dash.status = 200
   /\ dash.previous # <<>>
   /\ dash.previous[1].user = dash.user
   /\ dash.previous[1].query = dash.query)
  => Answer(dash) = dash.previous[1]

\* the amount row t adds to a figure of user u over the last 30 days: its
\* amount if it is a row of u of that type dated within them, else nothing
WindowTerm(t, u, type, abs) ==
  IF /\ txns[t] # NoTxn /\ txns[t].userId = u /\ txns[t].type = type
     /\ txns[t].date >= Now - 30
  THEN IF abs THEN Abs(txns[t].amount) ELSE txns[t].amount
  ELSE 0

\* what account a adds to the total balance of user u: its balance if it is
\* an active account of u, else nothing
BalanceTerm(a, u) ==
  IF AccountOwner[a] = u /\ isActive[a] THEN balance[a] ELSE 0

\* the ledger of the example: a balance of 1000 and, within the last 30 days,
\* an income of 3000 and expenses of -1200 and -300
ExampleLedger ==
  /\ BalanceTerm("a1", "u1") + BalanceTerm("a2", "u1") = 1000
  /\ \A t \in TxnIds : txns[t] # NoTxn /\ txns[t].date >= Now - 30
  /\ \E i, j, k \in TxnIds :
       /\ {i, j, k} = TxnIds
       /\ txns[i].amount = 3000 /\ txns[i].type = "INCOME"
       /\ txns[j].amount = -1200 /\ txns[j].type = "EXPENSE"
       /\ txns[k].amount = -300 /\ txns[k].type = "EXPENSE"

\* C22: the answer of GET /api/dashboard/stats has totalBalance the sum of the
\* balances of the user's active accounts, monthlyIncome the sum of the INCOME
\* amounts and monthlyExpenses the sum of the absolute EXPENSE amounts of the
\* last 30 days, and monthlyNet their difference; for the ledger of the example
\* these are 1000, 3000, 1500 and 1500
C22_StatsFigures ==
  (dash.pc = "done" /\ dash.kind = "stats" /\ dash.status = 200) =>
    LET u == dash.user
        st == dash.stats
    IN /\ st.totalBalance = BalanceTerm("a1", u) + BalanceTerm("a2", u)
                              + BalanceTerm("a3", u)
       /\ st.monthlyIncome = WindowTerm("t1", u, "INCOME", FALSE)
                               + WindowTerm("t2", u, "INCOME", FALSE)
                               + WindowTerm("t3", u, "INCOME", FALSE)
       /\ st.monthlyExpenses = WindowTerm("t1", u, "EXPENSE", TRUE)
                                 + WindowTerm("t2", u, "EXPENSE", TRUE)
                                 + WindowTerm("t3", u, "EXPENSE", TRUE)
       /\ st.monthlyNet = st.monthlyIncome - st.monthlyExpenses
       /\ (u = "u1" /\ ExampleLedger) =>
             /\ st.totalBalance = 1000 /\ st.monthlyIncome = 3000
             /\ st.monthlyExpenses = 1500 /\ st.monthlyNet = 1500

\* the statistics of the example ledger have been answered, the balance of
\* 50 of the inactive account a2 not in the total
C22_Witness ==
  /\ dash.pc = "done" /\ dash.kind = "stats" /\ dash.status = 200
  /\ dash.user = "u1" /\ ExampleLedger
  /\ ~isActive["a2"] /\ balance["a2"] = 50
  /\ dash.stats.monthlyNet = 1500 /\ dash.stats.totalBalance = 1000

\* C23: a Redis command that fails is absorbed.  After the ledger writes of a
\* create, update or delete, invalidateUserCache and publishUpdate return
\* whatever DEL or PUBLISH does, the request answers success and no balance or
\* row changes; a cache read or write returns to its caller, a read that
\* fails or finds no value with null, and a call that failed leaves the cache
\* as it was
C23_CacheFailureAbsorbed ==
  [][
      /\ \A r \in Reqs :
          (req[r].pc \in {"inval", "respond"} /\ StepOf(r)) =>
             /\ LedgerUnchanged
             /\ req'[r].pc \in IF req[r].pc = "inval"
                              THEN {"inval", "respond"} ELSE {"done"}
             /\ (req'[r].pc = "done" =>
                  req'[r].status = IF req[r].kind = "create" THEN 201 ELSE 200)
      /\ (dash.pc = "idle" /\ dash'.kind \in {"cache-get", "cache-set"}) =>
             /\ dash'.pc = "done"
             /\ dash'.outcome =
                  IF dash'.kind = "cache-set" THEN "returned"
                  ELSE IF dash'.fault \/ ~Held(dash'.user, dash'.key)
                       THEN "null"
                  ELSE IF TextOf(dash'.user, dash'.key) = "{}" THEN "value"
                  ELSE "null"
             /\ cache' = cache]_vars

\* a read of a key that is in the cache has failed and returned null, and a
\* create has answered 201 with its row stored and its amount on the balance
\* although a DEL of invalidateUserCache failed and left keys behind
C23_Witness ==
  \E r \in Reqs :
    /\ dash.pc = "done" /\ dash.kind = "cache-get" /\ dash.fault
    /\ Held(dash.user, dash.key) /\ dash.outcome = "null"
    /\ req[r].pc = "done" /\ req[r].kind = "create" /\ req[r].status = 201
    /\ cache[req[r].user] # {}
    /\ txns[req[r].id] # NoTxn
    /\ balance["a1"] # OpeningBalance["a1"] + SumEffects(SeededTxns, "a1", TxnIds)

\* the body of update q names no amount, type or account other than those
\* its transaction is stored with
ResendsStored(q) ==
  /\ txns[q.id] # NoTxn
  /\ q.amount # <<>> => q.amount[1] = txns[q.id].amount
  /\ q.type # Absent => q.type = txns[q.id].type
  /\ q.accountId # Absent => q.accountId = txns[q.id].accountId

\* C24: an update that changes none of amount, type and accountId, because
\* its body names only other fields or resends the stored values, changes no
\* balance at any of its steps and leaves amount, type and account of the row
\* as they were
C24_UpdateWithoutLedgerChange ==
  [][\A r \in Reqs :
       (/\ req[r].kind = "update" /\ req[r].pc \in TxPcs
        /\ ResendsStored(req[r]) /\ StepOf(r)) =>
          /\ balance' = balance
          /\ txns'[req[r].id].amount = txns[req[r].id].amount
          /\ txns'[req[r].id].type = txns[req[r].id].type
          /\ txns'[req[r].id].accountId = txns[req[r].id].accountId]_vars

\* the list parseAIResponse made of the elements of a JSON array, every
\* confidence a number
ParsedFromArray(list) ==
  /\ \A now \in 1..clock : list # <<GenericInsight(now)>>
  /\ \A i \in 1..Len(list) : ~list[i].nan

\* C25: a generation run that parsed insights deletes the caller's stored
\* insights older than 7 days and inserts the new set: its first statement
\* leaves of the caller's stored insights those not older than 7 days, its
\* second puts the new set before them (newest first), each row with the
\* time of the statement as its createdAt, and those of the other users are
\* as before
C25_SaveReplacesOld ==
  [][\A g \in AiReqs :
       /\ (ai[g].pc = "g_save" /\ ai'[g].pc = "g_insert"
           /\ ParsedFromArray(ai[g].result)) =>
             insights' = [insights EXCEPT ![ai[g].user] = Recent(@)]
       /\ (ai[g].pc = "g_insert" /\ ai'[g].pc = "done"
           /\ ParsedFromArray(ai[g].result)) =>
             \E now \in CurrentTimestamp :
               insights' = [insights EXCEPT ![ai[g].user] =
                              CreatedRows(ai[g].result, now) \o @]
    ]_vars

\* C26: every insight parseAIResponse returns has a confidence that is a
\* number from 0 to 1
C26_ConfidenceInRange ==
  \A g \in AiReqs :
    ai[g].pc \in {"g_save", "g_insert"} =>
      \A i \in 1..Len(ai[g].result) :
         /\ ~ai[g].result[i].nan
         /\ ai[g].result[i].confidence >= 0
         /\ ai[g].result[i].confidence <= 100

\* C27: every insight returned to a caller or stored has a type of the enum
\* InsightType
C27_TypeInEnum ==
  /\ \A g \in AiReqs :
       ai[g].pc \in {"g_save", "g_insert", "done"} =>
         \A i \in 1..Len(ai[g].result) :
            ai[g].result[i].type \in InsightTypes
  /\ \A u \in Users :
       \A i \in 1..Len(insights[u]) : insights[u][i].type \in InsightTypes

\* C28: a read of the dashboard statistics that finds no entry in the cache
\* stores what it computed under the caller's dashboard key before it answers
C28_MissFillsCache ==
  [][(/\ dash.kind = "stats" /\ dash.pc = "s_budgets"
      /\ ~Held(dash.user, "dashboard")
      /\ dash'.pc = "done" /\ dash'.status = 200) =>
        \E e \in cache'[dash.user] : e.key = "dashboard"]_vars

\* C29: with an API key, for a user who has a transaction of whatever date,
\* the flow that has read the ledger goes on to the external service and does
\* not answer the welcome insight
C29_NoWelcomeWithTransactions ==
  [][\A g \in AiReqs :
       (/\ ai[g].pc = "g_data" /\ ai'[g] # ai[g] /\ apiKey
        /\ AllTransactions(ai[g].user) # {}) =>
          (ai'[g].pc = "g_call" /\ ai'[g].result # <<WelcomeInsight>>)]_vars

\* C30: when generateFinancialInsights returns insights parsed from the
\* answer of the external service, they are the newest rows of the store:
\* whatever the next getUserInsights returns is not empty and has them, in
\* some order, as its first rows, so that a GET starts no further generation
C30_ReturnedInsightsStored ==
  [][\A g \in AiReqs :
       (/\ ai[g].pc = "g_insert" /\ ai'[g].pc = "done"
        /\ ParsedFromArray(ai[g].result) /\ Len(ai[g].result) > 0) =>
         \A next \in FindManyInsights(insights'[ai[g].user]) :
            /\ Len(next) > 0
            /\ Len(next) >= Len(ai'[g].result)
            /\ {next[i].id : i \in 1..Len(ai'[g].result)} =
                 {ai'[g].result[i].id : i \in 1..Len(ai'[g].result)}]_vars

====
